---- MODULE Spec2Model ----
(***************************************************************************)
(* The catalog database of the short-circuit calculator: a fact table      *)
(* joined to its SUBTABLES (dimension tables), the joined CRUD operations  *)
(* of JoinedMixin, the table operations of BaseMixin they rest on, and     *)
(* session_scope, the transactional scope every operation runs in.         *)
(*                                                                         *)
(* The fact table modelled is CurrentBreaker (two dimension tables, Device *)
(* and CurrentNominal, and the fact columns resistance_r1, reactance_x1);  *)
(* the operations are those of the mixins and are the same for Transformer *)
(* and Cable.                                                              *)
(***************************************************************************)
EXTENDS Integers, FiniteSets, Sequences, TLC

\* Number of dimension tables of the fact table (CurrentBreaker.SUBTABLES).
NDims == 2

\* Bounds of the model.
MaxVal == 2
MaxId == 2
MaxRows == 2
MaxFact == 1
MaxChain == 2
MaxElems == 3
MaxLines == 2

\* Python's None and SQL's NULL.
None == -1

OK == "ok"

\* The fact table's dimension tables, in declaration order.
SUBTABLES == 1 .. NDims

\* The fact (joined) table.
FACT == 0

Tables == {FACT} \cup SUBTABLES

\* Values of a dimension table's non-key column, and of a fact column.
Vals == 1 .. MaxVal
FVals == 0 .. MaxFact

\* The non-key columns of the fact table.
FactCols == {"r1", "x1"}

VARIABLES
    dialect,       \* config_manager('DB_EXISTING_CONNECTION')
    engine,        \* the database the engine was bound to when tools was loaded
    exists,        \* the tables that exist in the database
    dim,           \* dim[t]: the rows [id, val] of dimension table t
    fact,          \* the rows [id, fk, r1, x1] of the fact table
    foreign_keys,  \* whether the connection enforces foreign keys
    sess,          \* one session_scope in progress (SpecSession)
    metadata,      \* the tables of tools.metadata, the MetaData db_install reflects into
    config_file,   \* the lines of the configuration file
    text,          \* the text handed to ChainsSystem
    system,        \* the ChainsSystem made of it
    element,       \* the element last constructed
    chain,         \* the ElemChain last made
    returned,      \* what the last call returned or raised
    other_contact, \* the rows [contact_type, r1, x1] of the table OtherContact
    T_voltage      \* the default of the field voltage of T, set as elements is loaded

\* The variables the catalog operations do not touch.
tools == <<metadata, config_file, text, system, element, chain, returned, other_contact, T_voltage>>

vars == <<dialect, engine, exists, dim, fact, foreign_keys, sess, tools>>

\* The database as the operations see it.
DB == [exists |-> exists, dim |-> dim, fact |-> fact, foreign_keys |-> foreign_keys]

Max(S) == CHOOSE x \in S : \A y \in S : y <= x
Min(S) == CHOOSE x \in S : \A y \in S : x <= y

\* The i-th smallest element of a finite set of integers.
RECURSIVE Nth(_, _)
Nth(S, i) == IF i = 1 THEN Min(S) ELSE Nth(S \ {Min(S)}, i - 1)

----------------------------------------------------------------------------
(* The schema: what the database does with one statement. A statement on a *)
(* missing table raises OperationalError (on MySQL a DROP does, other       *)
(* statements raise ProgrammingError, which the operations treat alike).    *)

\* The id an auto-increment primary key gives the next row.
NextId(rows) == IF rows = {} THEN 1 ELSE Max({r.id : r \in rows}) + 1

DimVals(db, t) == {r.val : r \in db.dim[t]}
DimIds(db, t) == {r.id : r \in db.dim[t]}

Res(db, exc) == [db |-> db, exc |-> exc]

\* INSERT INTO <dimension t> (col) VALUES (v) had col no UNIQUE constraint.
SqlInsertDimNoUnique(db, t, v) ==
    IF t \notin db.exists THEN Res(db, "OperationalError")
    ELSE IF v = None THEN Res(db, "IntegrityError")
    ELSE Res([db EXCEPT !.dim[t] = @ \cup {[id |-> NextId(@), val |-> v]}], OK)

\* INSERT INTO <dimension t> (col) VALUES (v): col is NOT NULL and UNIQUE.
SqlInsertDim(db, t, v) ==
    IF t \notin db.exists THEN Res(db, "OperationalError")
    ELSE IF v = None \/ v \in DimVals(db, t) THEN Res(db, "IntegrityError")
    ELSE Res([db EXCEPT !.dim[t] = @ \cup {[id |-> NextId(@), val |-> v]}], OK)

\* UPDATE <dimension t> SET col = new WHERE col = old, done as a DELETE and
\* an INSERT: the row that holds new has a new id.
SqlUpdateDimReinsert(db, t, old, new) ==
    IF t \notin db.exists THEN Res(db, "OperationalError")
    ELSE IF old \notin DimVals(db, t) THEN Res(db, OK)
    ELSE IF new = None \/ (new # old /\ new \in DimVals(db, t))
         THEN Res(db, "IntegrityError")
    ELSE Res([db EXCEPT !.dim[t] =
                 {r \in @ : r.val # old} \cup {[id |-> NextId(@), val |-> new]}], OK)

\* UPDATE <dimension t> SET col = new WHERE col = old.
SqlUpdateDim(db, t, old, new) ==
    IF t \notin db.exists THEN Res(db, "OperationalError")
    ELSE IF old \notin DimVals(db, t) THEN Res(db, OK)
    ELSE IF new = None \/ (new # old /\ new \in DimVals(db, t))
         THEN Res(db, "IntegrityError")
    ELSE Res([db EXCEPT !.dim[t] =
                 {IF r.val = old THEN [r EXCEPT !.val = new] ELSE r : r \in @}], OK)

\* DELETE FROM <dimension t> WHERE col = v; ON DELETE CASCADE removes the fact
\* rows of the deleted row when foreign keys are enforced.
SqlDeleteDim(db, t, v) ==
    IF t \notin db.exists THEN Res(db, "OperationalError")
    ELSE LET gone == {r.id : r \in {x \in db.dim[t] : x.val = v}}
         IN Res([db EXCEPT !.dim[t] = {r \in @ : r.val # v},
                           !.fact = IF db.foreign_keys
                                    THEN {f \in @ : f.fk[t] \notin gone}
                                    ELSE @], OK)

\* Whether every foreign key of a fact row refers to a row of its table.
Resolves(db, f) == \A t \in SUBTABLES : f.fk[t] = None \/ f.fk[t] \in DimIds(db, t)

\* INSERT INTO <fact> (fks, r1, x1): resistance_r1 is NOT NULL.
SqlInsertFact(db, fk, r1, x1) ==
    IF FACT \notin db.exists THEN Res(db, "OperationalError")
    ELSE LET f == [id |-> NextId(db.fact), fk |-> fk, r1 |-> r1, x1 |-> x1]
         IN IF r1 = None \/ (db.foreign_keys /\ ~Resolves(db, f))
            THEN Res(db, "IntegrityError")
            ELSE Res([db EXCEPT !.fact = @ \cup {f}], OK)

----------------------------------------------------------------------------
(* insert_joined_table: the statements of its session scope.               *)

\* What the dimension and row loops of insert_joined_table hand on: unique
\* is the function attribute __temp_insert.unique, attrs the foreign keys
\* found so far, out[i] whether row i's fact row was inserted ("has been
\* updated") or not ("not updated. 0 unique string").
Loop(db, exc, unique, attrs, out) ==
    [db |-> db, exc |-> exc, unique |-> unique, attrs |-> attrs, out |-> out]

NoAttrs == [t \in SUBTABLES |-> None]

\* The id of the row of dimension t that holds v.
IdOf(db, t, v) == (CHOOSE r \in db.dim[t] : r.val = v).id

RECURSIVE InsertDims(_, _, _, _, _)
RECURSIVE InsertRows(_, _, _, _, _)

\* The same, had the attribute been set after a swallowed IntegrityError
\* too.
FirstIdSetsUnique(ins, row, t, unique, attrs) ==
    IF ins.exc \notin {OK, "IntegrityError"}
    THEN Loop(ins.db, ins.exc, unique, attrs, <<>>)
    ELSE IF row.d[t] \notin DimVals(ins.db, t)
    THEN Loop(ins.db, "AttributeError", unique, attrs, <<>>)
    ELSE InsertDims(ins.db, row, t + 1, TRUE,
                    [attrs EXCEPT ![t] = IdOf(ins.db, t, row.d[t])])

\* After the INSERT into dimension t (its outcome is ins): an IntegrityError
\* is swallowed, the attribute is set after a successful insert, and
\* session.query(table).filter(col == row[col]).first().id is the foreign key.
FirstId(ins, row, t, unique, attrs) ==
    IF ins.exc \notin {OK, "IntegrityError"}
    THEN Loop(ins.db, ins.exc, unique, attrs, <<>>)
    ELSE IF row.d[t] \notin DimVals(ins.db, t)
    THEN Loop(ins.db, "AttributeError", unique, attrs, <<>>)
    ELSE InsertDims(ins.db, row, t + 1, unique \/ ins.exc = OK,
                    [attrs EXCEPT ![t] = IdOf(ins.db, t, row.d[t])])

\* The loop over SUBTABLES for one row.
InsertDims(db, row, t, unique, attrs) ==
    IF t > NDims THEN Loop(db, OK, unique, attrs, <<>>)
    ELSE FirstId(SqlInsertDim(db, t, row.d[t]), row, t, unique, attrs)

\* After the INSERT of row i's fact row (its outcome is ins).
Inserted(ins, data, i, unique, out) ==
    IF ins.exc # OK THEN Loop(ins.db, ins.exc, unique, NoAttrs, out)
    ELSE InsertRows(ins.db, data, i + 1, unique, Append(out, TRUE))

\* After the dimension loop of row i (its outcome is d): the fact row is
\* inserted if __temp_insert has the attribute unique.
InsertFact(d, data, i, out) ==
    IF d.exc # OK THEN Loop(d.db, d.exc, d.unique, NoAttrs, out)
    ELSE IF d.unique
    THEN Inserted(SqlInsertFact(d.db, d.attrs, data[i].r1, data[i].x1),
                  data, i, d.unique, out)
    ELSE InsertRows(d.db, data, i + 1, d.unique, Append(out, FALSE))

\* The loop over the rows of data.
InsertRows(db, data, i, unique, out) ==
    IF i > Len(data) THEN Loop(db, OK, unique, NoAttrs, out)
    ELSE InsertFact(InsertDims(db, data[i], 1, unique, NoAttrs), data, i, out)

----------------------------------------------------------------------------
(* update_joined_table and delete_joined_table: the statements of their    *)
(* session scopes.                                                         *)

\* The items of old_source_dict / source_dict: the (table, value) pairs of
\* the dimensions given, in the order of SUBTABLES.
Items(src) ==
    [i \in 1 .. Cardinality(DOMAIN src) |->
        <<Nth(DOMAIN src, i), src[Nth(DOMAIN src, i)]>>]

\* One query of primary_key_queries: zip(SUBTABLES, items) pairs the i-th
\* item with SUBTABLES[i]; the rows of
\* SELECT SUBTABLES[i].id FROM ... WHERE <column of the item> = <its value>.
PrimaryKeyQuery(db, i, item) ==
    IF item[2] \notin DimVals(db, item[1]) THEN {}
    ELSE IF item[1] = i THEN {IdOf(db, i, item[2])}
    ELSE DimIds(db, i)

primary_key_queries(db, src) ==
    [i \in 1 .. Cardinality(DOMAIN src) |-> PrimaryKeyQuery(db, i, Items(src)[i])]

\* query.as_scalar(): NULL for no row; of several rows SQLite takes the first
\* of its scan (o.first), MySQL raises.
Scalar(rows, o) ==
    IF rows = {} THEN None
    ELSE IF o.first = "min" THEN Min(rows) ELSE Max(rows)

\* and_(key == query.as_scalar() for key, query in zip(foreign keys,
\* primary_key_queries)) for the fact row f.
Matches(f, queries, o) ==
    \A i \in DOMAIN queries :
        Scalar(queries[i], o) # None /\ f.fk[i] = Scalar(queries[i], o)

\* The fact rows of the filter, or the exception of the statement.
Filter(db, items, queries, o) ==
    IF FACT \notin db.exists
       \/ \E i \in DOMAIN items : i \notin db.exists \/ items[i][1] \notin db.exists
    THEN [exc |-> "OperationalError", rows |-> {}]
    ELSE IF engine = "MySQL" /\ \E i \in DOMAIN queries : Cardinality(queries[i]) > 1
    THEN [exc |-> "OperationalError", rows |-> {}]
    ELSE [exc |-> OK, rows |-> {f \in db.fact : Matches(f, queries, o)}]

FactFilter(db, src, o) == Filter(db, Items(src), primary_key_queries(db, src), o)

\* Python's truth value of a fact value: None and 0 are false.
Truthy(v) == v # None /\ v # 0

\* The values of update(): {getattr(cls, k): v for k, v in target.items() if v}.
Supplied(target) == {c \in DOMAIN target : Truthy(target[c])}

Edited(f, target) ==
    [f EXCEPT !.r1 = IF "r1" \in Supplied(target) THEN target["r1"] ELSE @,
              !.x1 = IF "x1" \in Supplied(target) THEN target["x1"] ELSE @]

EditRows(db, flt, target) ==
    IF flt.exc # OK THEN Res(db, flt.exc)
    ELSE Res([db EXCEPT !.fact = {IF f \in flt.rows THEN Edited(f, target) ELSE f
                                   : f \in @}], OK)

\* The fact-row edit: query(cls).filter(...).update({...}); an UPDATE that
\* sets nothing is refused by the database or changes nothing.
FactEdit(db, old, target, o) ==
    IF Supplied(target) = {}
    THEN Res(db, IF o.empty_raises THEN "DBAPIError" ELSE OK)
    ELSE EditRows(db, FactFilter(db, old, o), target)

\* The edit of one dimension table: old_source_dict[...] raises KeyError for
\* a dimension that new_source_data names and old_source_data does not.
DimEdit(db, t, old, new) ==
    IF t \notin DOMAIN old THEN Res(db, "KeyError")
    ELSE SqlUpdateDim(db, t, old[t], new[t])

DeleteRows(db, flt) ==
    IF flt.exc # OK THEN Res(db, flt.exc)
    ELSE Res([db EXCEPT !.fact = @ \ flt.rows], OK)

\* query(cls).filter(...).delete(): the fact rows of the filter are deleted.
FactDelete(db, src, o) == DeleteRows(db, FactFilter(db, src, o))

----------------------------------------------------------------------------
(* reset_id and drop_table: the statements of their session scopes.        *)

\* The position of a row in the order of the primary key.
Rank(rows, id) == Cardinality({r \in rows : r.id <= id})

\* BaseMixin.reset_id on MySQL: SET @count = 0, which no other database
\* understands, and UPDATE t SET id = @count := @count + 1, in the order of
\* the primary key; ON UPDATE CASCADE carries the new id of a
\* dimension row to the fact rows when foreign keys are checked.
ResetMySQL(db, t) ==
    IF engine # "MySQL" \/ t \notin db.exists THEN Res(db, "OperationalError")
    ELSE IF t = FACT
    THEN Res([db EXCEPT !.fact = {[f EXCEPT !.id = Rank(db.fact, f.id)] : f \in @}], OK)
    ELSE Res([db EXCEPT
                !.dim[t] = {[r EXCEPT !.id = Rank(db.dim[t], r.id)] : r \in @},
                !.fact = IF db.foreign_keys
                         THEN {IF f.fk[t] \in DimIds(db, t)
                               THEN [f EXCEPT !.fk[t] = Rank(db.dim[t], f.fk[t])]
                               ELSE f : f \in @}
                         ELSE @], OK)

\* JoinedMixin.reset_id on SQLite, inside the session: DELETE FROM the fact
\* table (its rows were read into the dataframe before) and the reset of its
\* SQLITE_SEQUENCE entry, a table db_install has seen to.
ResetSQLite(db) ==
    IF FACT \notin db.exists THEN Res(db, "OperationalError")
    ELSE Res([db EXCEPT !.fact = {}], OK)

\* drop_table(forced=True), inside the session: foreign-key checks off, DROP
\* TABLE, foreign-key checks on. A failing DROP leaves the rest unexecuted;
\* the statements are those of the configured dialect, which an engine of
\* the other does not understand.
ForcedDrop(db, t) ==
    IF engine # dialect THEN Res(db, "OperationalError")
    ELSE IF t \notin db.exists THEN Res([db EXCEPT !.foreign_keys = FALSE], "OperationalError")
    ELSE Res([db EXCEPT !.exists = @ \ {t},
                        !.dim = [u \in SUBTABLES |-> IF u = t THEN {} ELSE @[u]],
                        !.fact = IF t = FACT THEN {} ELSE @,
                        !.foreign_keys = TRUE], OK)

----------------------------------------------------------------------------
(* insert_table(from_csv=...): the statement of its session scope. The CSV  *)
(* files of the catalog hold one row here: a dimension file the value of    *)
(* its non-key column, the fact file the ids of the dimension rows and the  *)
(* fact values.                                                             *)

CsvRow == [d |-> [t \in SUBTABLES |-> 1], r1 |-> 1, x1 |-> 0]

\* session.connection().execute(sa.insert(cls), data), data being the rows
\* of the table's CSV file.
InsertCsv(db, t) ==
    IF t = FACT THEN SqlInsertFact(db, CsvRow.d, CsvRow.r1, CsvRow.x1)
    ELSE SqlInsertDim(db, t, CsvRow.d[t])

----------------------------------------------------------------------------
(* session_scope                                                           *)

\* The statements of a session scope, by the operation that opens it.
Body(body, a, db) ==
    CASE body = "insert_joined_table" -> InsertRows(db, a.data, 1, FALSE, <<>>)
      [] body = "primary_key_queries" -> Res(db, OK)
      [] body = "fact_edit" -> FactEdit(db, a.old, a.target, a.o)
      [] body = "dim_edit" -> DimEdit(db, a.t, a.old, a.new)
      [] body = "fact_delete" -> FactDelete(db, a.src, a.o)
      [] body = "dim_delete" -> SqlDeleteDim(db, a.t, a.src[a.t])
      [] body = "reset_id_mysql" -> ResetMySQL(db, a.t)
      [] body = "reset_id_sqlite" -> ResetSQLite(db)
      [] body = "forced_drop" -> ForcedDrop(db, a.t)
      [] body = "insert_table" -> InsertCsv(db, a.t)
      [] body = "sqlite_sequence" -> Res(db, OK)

\* What a transaction that ends without commit leaves: the rows are those of
\* its start; DDL and the connection's foreign-key setting are not undone.
Discard(start, cur) ==
    [cur EXCEPT !.dim = [t \in SUBTABLES |-> IF t \in cur.exists THEN start.dim[t] ELSE {}],
                !.fact = IF FACT \in cur.exists THEN start.fact ELSE {}]

\* The same, were it issued for the database the engine is bound to.
PragmaOfEngine(db) == IF engine = "SQLite" THEN [db EXCEPT !.foreign_keys = TRUE] ELSE db

\* The statement session_scope issues on entry: PRAGMA foreign_keys = ON
\* when the configuration names SQLite.
Pragma(db) == IF dialect = "SQLite" THEN [db EXCEPT !.foreign_keys = TRUE] ELSE db

\* The exit of the scope, r being the outcome of its statements: commit()
\* when they raised nothing; otherwise rollback() (OperationalError) or
\* close() (any other exception) ends the transaction, and the exception
\* propagates.
Exit(start, r) ==
    IF r.exc = OK THEN r ELSE [r EXCEPT !.db = Discard(start, r.db)]

\* with session_scope() as session: <the statements of body>. MySQL does
\* not understand the PRAGMA.
session_scope(db, body, a) ==
    IF dialect = "SQLite" /\ engine = "MySQL" THEN Res(db, "ProgrammingError")
    ELSE Exit(Pragma(db), Body(body, a, Pragma(db)))

----------------------------------------------------------------------------
(* The operations of JoinedMixin and BaseMixin.                            *)

\* What the connection of an operation on the engine itself enforces: on
\* MySQL the pooled connection's FOREIGN_KEY_CHECKS; on SQLite foreign keys
\* are a setting of each connection, off for a new one and on for a pooled one
\* a session_scope has used (o.engine_fk).
EngineFk(db, o) == IF engine = "MySQL" THEN db.foreign_keys ELSE o.engine_fk

insert_joined_table(db, data) ==
    session_scope(db, "insert_joined_table", [data |-> data])

\* The scope that builds primary_key_queries: it runs no statement of its own.
Queries(db, src) ==
    IF DOMAIN src # {} THEN session_scope(db, "primary_key_queries", <<>>).db ELSE db

\* "Update one string in joined table".
EditFact(db, old, target, o) ==
    IF DOMAIN old # {} /\ DOMAIN target # {}
    THEN session_scope(db, "fact_edit", [old |-> old, target |-> target, o |-> o])
    ELSE Res(db, OK)

RECURSIVE DimEdits(_, _, _, _)

\* After the scope of one dimension table (its outcome is r): an exception
\* propagates, otherwise the loop goes on.
EditedDim(r, old, new, todo) ==
    IF r.exc # OK THEN r ELSE DimEdits(r.db, old, new, todo)

\* The loop over changed_tables of update_joined_table: one session_scope
\* for each dimension table named in new_source_data.
DimEdits(db, old, new, todo) ==
    IF todo = {} THEN Res(db, OK)
    ELSE EditedDim(session_scope(db, "dim_edit", [t |-> Min(todo), old |-> old, new |-> new]),
                   old, new, todo \ {Min(todo)})

\* "Update source tables strings", r being the outcome of the fact-row edit.
EditSources(r, old, new) ==
    IF r.exc # OK THEN r
    ELSE IF DOMAIN old # {} /\ DOMAIN new # {} THEN DimEdits(r.db, old, new, DOMAIN new)
    ELSE r

\* After the edits (their outcome is r), had they one transaction: an
\* exception leaves the rows of the start.
Undone(db, r) == IF r.exc # OK THEN Res(Discard(Pragma(db), r.db), r.exc) ELSE r

\* The edits of update_joined_table inside one session scope.
update_in_one_scope(db, old, new, target, o) ==
    Undone(db, EditSources(EditFact(Queries(db, old), old, target, o), old, new))

update_joined_table(db, old, new, target, o) ==
    EditSources(EditFact(Queries(db, old), old, target, o), old, new)

RECURSIVE DimDeletes(_, _, _)

DeletedDim(r, src, todo) ==
    IF r.exc # OK THEN r ELSE DimDeletes(r.db, src, todo)

\* The loop over changed_tables of delete_joined_table(from_source=True).
DimDeletes(db, src, todo) ==
    IF todo = {} THEN Res(db, OK)
    ELSE DeletedDim(session_scope(db, "dim_delete", [t |-> Min(todo), src |-> src]),
                    src, todo \ {Min(todo)})

\* "Delete one string in joined table" or "Delete source tables strings".
Delete(db, src, from_source, o) ==
    IF from_source THEN DimDeletes(db, src, DOMAIN src)
    ELSE session_scope(db, "fact_delete", [src |-> src, o |-> o])

delete_joined_table(db, src, from_source, o) ==
    IF DOMAIN src = {} THEN Res(db, OK)
    ELSE Delete(Queries(db, src), src, from_source, o)

\* df.to_sql(table, engine, if_exists='append'): the rows of the dataframe
\* are inserted in their order, in one transaction of a connection of the
\* engine, and get new ids.
Renumbered(df) == {[f EXCEPT !.id = Rank(df, f.id)] : f \in df}

ToSql(db, df, o) ==
    IF FACT \notin db.exists THEN Res(db, "OperationalError")
    ELSE IF EngineFk(db, o) /\ \E f \in df : ~Resolves(db, f)
    THEN Res(db, "IntegrityError")
    ELSE Res([db EXCEPT !.fact = @ \cup Renumbered(df)], OK)

\* After the re-insert (its outcome is r), had it the transaction of the
\* DELETE: a refused re-insert leaves the rows df.
Restored(r, df) == IF r.exc # OK THEN Res([r.db EXCEPT !.fact = df], r.exc) ELSE r

\* The re-insert inside the session scope of the DELETE.
ReinsertInScope(del, df, o) ==
    IF del.exc # OK THEN del ELSE Restored(ToSql(del.db, df, o), df)

\* JoinedMixin.reset_id on SQLite after its session scope (its outcome is del).
Reinsert(del, df, o) ==
    IF del.exc # OK THEN del ELSE ToSql(del.db, df, o)

\* reset_id of table t (BaseMixin.reset_id, extended by JoinedMixin.reset_id
\* for the fact table).
reset_id(db, t, o) ==
    IF dialect = "MySQL" THEN session_scope(db, "reset_id_mysql", [t |-> t])
    ELSE IF t # FACT THEN Res(db, OK)
    ELSE Reinsert(session_scope(db, "reset_id_sqlite", <<>>), db.fact, o)

\* Table.drop(engine): DROP TABLE on a connection of the engine. MySQL
\* refuses to drop a table a foreign key refers to while it checks foreign
\* keys; SQLite deletes the rows first, which cascades when it enforces them.
EngineDrop(db, t, o) ==
    IF t \notin db.exists THEN Res(db, "OperationalError")
    ELSE IF engine = "MySQL" /\ EngineFk(db, o) /\ t # FACT /\ FACT \in db.exists
    THEN Res(db, "OperationalError")
    ELSE Res([db EXCEPT
                !.exists = @ \ {t},
                !.dim = [u \in SUBTABLES |-> IF u = t THEN {} ELSE @[u]],
                !.fact = IF t = FACT THEN {}
                         ELSE IF EngineFk(db, o) THEN {f \in @ : f.fk[t] \notin DimIds(db, t)}
                         ELSE @], OK)

\* drop_table(confirm, forced): sa.exc.OperationalError is caught and logged,
\* the bare raise of the unconfirmed call is a RuntimeError.
drop_table(db, t, confirmed, forced, o) ==
    IF ~confirmed THEN Res(db, "RuntimeError")
    ELSE IF ~forced THEN Res(EngineDrop(db, t, o).db, OK)
    ELSE Res(session_scope(db, "forced_drop", [t |-> t]).db, OK)

\* Table.create(engine, checkfirst=True). MySQL refuses to create the fact
\* table while a table it refers to is missing and foreign keys are checked;
\* the OperationalError is logged.
EngineCreate(db, t) ==
    IF engine = "MySQL" /\ db.foreign_keys /\ t = FACT /\ ~(SUBTABLES \subseteq db.exists)
    THEN Res(db, OK)
    ELSE Res([db EXCEPT !.exists = @ \cup {t}], OK)

create_table(db, t, drop_first, forced_drop, o) ==
    EngineCreate(IF drop_first THEN drop_table(db, t, TRUE, forced_drop, o).db ELSE db, t)

----------------------------------------------------------------------------
(* db_install: the deployment of the catalog, table by table.              *)

insert_table(db, t) == session_scope(db, "insert_table", [t |-> t])

\* The outcome of a step of the installation: the database, the tables
\* tools.metadata holds, and the exception in flight.
Inst(r, md) == [db |-> r.db, md |-> md, exc |-> r.exc]

\* metadata.reflect(bind=engine): the tables of the database that metadata
\* does not hold yet are loaded, the fact table first, and with it the tables
\* its foreign keys refer to; a table metadata holds stays in it. A foreign
\* key to a table that neither exists nor is held raises NoSuchTableError;
\* o.loaded are the tables loaded before it.
Reflect(db, md, o) ==
    IF FACT \in db.exists \ md /\ ~(SUBTABLES \subseteq db.exists \cup md)
    THEN [md |-> md \cup (o.loaded \cap db.exists), exc |-> "NoSuchTableError"]
    ELSE [md |-> md \cup db.exists, exc |-> OK]

\* db_table.create_table(drop_first, forced_drop); db_table.insert_table(csv).
CreateAndFill(db, t, full, o) ==
    insert_table(create_table(db, t, full, full, o).db, t)

\* deploy_if_not_exist after metadata.reflect (its outcome is rf).
Deploy(db, rf, t, full, o) ==
    IF rf.exc = "NoSuchTableError" THEN Inst(CreateAndFill(db, t, FALSE, o), rf.md)
    ELSE IF full \/ t \notin rf.md THEN Inst(CreateAndFill(db, t, full, o), rf.md)
    ELSE Inst(Res(db, OK), rf.md)

deploy_if_not_exist(db, md, t, full, o) == Deploy(db, Reflect(db, md, o), t, full, o)

\* The tables of a category in the order db_install deploys them: the
\* dimension tables, then the fact table.
TableAt(i) == IF i <= NDims THEN i ELSE FACT

RECURSIVE Deploys(_, _, _, _, _)

\* After the deployment of one table (its outcome is st): an exception ends
\* db_install, otherwise the next table is deployed.
DeployNext(st, i, clear, o) ==
    IF st.exc # OK THEN st ELSE Deploys(st.db, st.md, i, clear, o)

Deploys(db, md, i, clear, o) ==
    IF i > NDims + 1 THEN Inst(Res(db, OK), md)
    ELSE DeployNext(deploy_if_not_exist(db, md, TableAt(i), clear, o), i + 1, clear, o)

\* "Need for create SQLITE_SEQUENCE in DB": a scope that creates and drops
\* the table test.
SqliteSequence(db) ==
    IF dialect = "SQLite" THEN session_scope(db, "sqlite_sequence", <<>>).db ELSE db

db_install(db, md, clear, o) == Deploys(SqliteSequence(db), md, 1, clear, o)

----------------------------------------------------------------------------
(* Validator, the descriptor of the fields of the elements, and the        *)
(* construction of an element. A value of Python is a record of its type   *)
(* and its content as a text; the texts are "" (empty), the numerals and   *)
(* "x" (a text that is no numeral).                                        *)

PyStr(s) == [type |-> "str", val |-> s]
PyInt(n) == [type |-> "int", val |-> n]
PyDecimal(n) == [type |-> "Decimal", val |-> n]
PyNone == [type |-> "NoneType", val |-> "None"]

\* The Validator instance itself: the value of a field the call gives no
\* argument for (the default of the dataclass field).
Unsupplied == [type |-> "Validator", val |-> "Validator"]

\* The texts int() and Decimal() take, and the numbers they make of them.
Numerals == ("0" :> 0) @@ ("1" :> 1) @@ ("2" :> 2) @@ ("1000" :> 1000)

Val(v) == [exc |-> OK, val |-> v]
Raised(exc) == [exc |-> exc, val |-> PyNone]

\* required_type(arg)
Coerce(type, arg) ==
    IF type = "str" THEN Val(PyStr(arg.val))
    ELSE IF arg.val \notin DOMAIN Numerals
    THEN Raised(IF type = "int" THEN "ValueError" ELSE "InvalidOperation")
    ELSE IF type = "int" THEN Val(PyInt(arg.val))
    ELSE Val(PyDecimal(arg.val))

\* not value
Falsy(value) ==
    \/ value.type = "NoneType"
    \/ value.type = "str" /\ value.val = ""
    \/ value.type \in {"int", "Decimal"} /\ value.val = "0"

\* Validator.__set__ of a field declared Validator(): without an argument
\* (value is self) and for a false value __set_valid_arg returns None, the
\* default being None; any other value goes through required_type, whose
\* exception is logged and raised again.
ValidatorSet(type, value) ==
    IF value.type = "Validator" \/ Falsy(value) THEN Val(PyNone)
    ELSE Coerce(type, value)

Variants == {"T", "W", "Q", "QF", "QS", "R", "Line", "Arc"}

\* The declared types of the fields of __init__, in their order.
Fields ==
    [T |-> <<"int", "str">>, W |-> <<"str", "int", "Decimal", "int">>,
     Q |-> <<"int", "str">>, QF |-> <<"int", "str">>, QS |-> <<"int", "str">>,
     R |-> <<"str">>, Line |-> <<"str">>, Arc |-> <<"str">>]

\* __post_init__ of QF, QS, Line and Arc: the device type or contact type
\* of the variant ("1" and "2" are the two of the catalog).
Discriminator == [QF |-> "1", QS |-> "2", Line |-> "1", Arc |-> "2"]

Element(variant, args, fields) ==
    [exc |-> OK, variant |-> variant, args |-> args, fields |-> fields]

NoElement(variant, args, exc) == [exc |-> exc, variant |-> variant, args |-> args]

\* self.device_type = ... / self.contact_type = ... of __post_init__: the
\* last field of the variant.
PostInit(variant, args, fields) ==
    IF variant \in DOMAIN Discriminator
    THEN Element(variant, args,
             [fields EXCEPT ![Len(fields)] =
                 ValidatorSet("str", PyStr(Discriminator[variant])).val])
    ELSE Element(variant, args, fields)

RECURSIVE SetFields(_, _, _, _)

\* After the assignment of field i (its outcome is r).
SetField(r, variant, args, fields) ==
    IF r.exc # OK THEN NoElement(variant, args, r.exc)
    ELSE SetFields(variant, args, Len(fields) + 2, Append(fields, r.val))

\* The assignments of the generated __init__, from field i on.
SetFields(variant, args, i, fields) ==
    IF i > Len(Fields[variant]) THEN PostInit(variant, args, fields)
    ELSE SetField(ValidatorSet(Fields[variant][i],
                               IF i <= Len(args) THEN args[i] ELSE Unsupplied),
                  variant, args, fields)

\* variant(*args): more arguments than fields are a TypeError of __init__.
Construct(variant, args) ==
    IF Len(args) > Len(Fields[variant]) THEN NoElement(variant, args, "TypeError")
    ELSE SetFields(variant, args, 1, <<>>)

----------------------------------------------------------------------------
(* The impedance properties of an element: _sql_query and the properties   *)
(* of BaseElement. The joined table stands for the element's own           *)
(* (Transformer, Cable, CurrentBreaker), its two dimensions for the first  *)
(* two of the natural key.                                                 *)

\* The value of a dimension column a field value is compared with: a text
\* that is no numeral is a value no row holds, None is NULL.
Denotes(v) ==
    IF v.type = "NoneType" THEN None
    ELSE IF v.val \in DOMAIN Numerals THEN Numerals[v.val] ELSE 0

\* The natural key of an element in the order of SUBTABLES: for Q, QF and QS
\* (device_type, current_value), fields 2 and 1.
Key(e) ==
    IF e.variant \in {"Q", "QF", "QS"}
    THEN <<Denotes(e.fields[2]), Denotes(e.fields[1])>>
    ELSE <<Denotes(e.fields[1]), Denotes(e.fields[2])>>

\* select(...).join(...).where(and_(...)): the fact rows whose dimension
\* rows hold the values of the key.
Joined(db, key) ==
    {f \in db.fact :
        \A t \in SUBTABLES : \E r \in db.dim[t] : r.id = f.fk[t] /\ r.val = key[t]}

\* The column attr_name of a row.
Column(row, attr) == IF attr = "r1" THEN row.r1 ELSE row.x1

\* .scalar(): the first column of the first row, None without a row.
FirstOf(rows, attr, o) ==
    IF rows = {} THEN None
    ELSE Column(CHOOSE f \in rows : f.id = Scalar({g.id : g \in rows}, o), attr)

\* The row of OtherContact of the contact type (the column is unique).
Contact(oc, e) ==
    {c \in oc : e.fields[1].type = "str" /\ c.contact_type = e.fields[1].val}

ContactOf(rows, attr) ==
    IF rows = {} THEN None ELSE Column(CHOOSE c \in rows : TRUE, attr)

\* W._sql_query: return query_val / 1000 * self.length (the lengths are
\* whole kilometres); None / 1000 and x * None are a TypeError.
PerLength(q, length) ==
    IF q = None \/ length.type = "NoneType" THEN [exc |-> "TypeError", val |-> None]
    ELSE [exc |-> OK, val |-> (q * Numerals[length.val]) \div 1000]

\* _sql_query(attr_name) of the element's class.
SqlQuery(db, oc, e, attr, o) ==
    IF e.variant \in {"R", "Line", "Arc"}
    THEN [exc |-> OK, val |-> ContactOf(Contact(oc, e), attr)]
    ELSE IF ~(Tables \subseteq db.exists) THEN [exc |-> "OperationalError", val |-> None]
    ELSE IF e.variant = "W" THEN PerLength(FirstOf(Joined(db, Key(e)), attr, o), e.fields[4])
    ELSE [exc |-> OK, val |-> FirstOf(Joined(db, Key(e)), attr, o)]

\* str(element)
StrOf(e) ==
    IF e.variant \in {"R"} THEN <<"R">>
    ELSE IF e.variant \in {"Line", "Arc"} THEN <<e.fields[1]>>
    ELSE IF e.variant \in {"Q", "QF", "QS"} THEN <<e.variant, e.fields[1]>>
    ELSE <<e.variant>> \o e.fields

\* The property after _sql_query (its outcome is q): None is the ValueError
\* "The ... for '<element>' is not found in the database!".
Found(q, e, attr) ==
    IF q.exc # OK THEN [exc |-> q.exc, val |-> None, attr |-> attr, msg |-> <<>>]
    ELSE IF q.val = None
    THEN [exc |-> "ValueError", val |-> None, attr |-> attr, msg |-> StrOf(e)]
    ELSE [exc |-> OK, val |-> q.val, attr |-> attr, msg |-> <<>>]

\* element.resistance_r1, element.reactance_x1 (and those of the zero
\* sequence, which read as these do).
Property(db, oc, e, attr, o) == Found(SqlQuery(db, oc, e, attr, o), e, attr)

----------------------------------------------------------------------------
(* ElemChain: a chain of elements, a sequence of them or a mapping of      *)
(* labels to them (obj is then the sequence of its items), its slices and  *)
(* its three-phase short-circuit current.                                  *)

ElemChain(form, obj) == [exc |-> OK, form |-> form, obj |-> obj]

RECURSIVE Dict(_, _)

\* d[key] = value: the value of a key the dict holds is replaced where it
\* is, a new key goes to the end.
SetItem(d, item) ==
    IF \E i \in DOMAIN d : d[i][1] = item[1]
    THEN [i \in DOMAIN d |-> IF d[i][1] = item[1] THEN item ELSE d[i]]
    ELSE Append(d, item)

\* dict(items), onto the items d.
Dict(d, items) ==
    IF items = <<>> THEN d ELSE Dict(SetItem(d, Head(items)), Tail(items))

\* seq[:k]
UpTo(seq, k) == SubSeq(seq, 1, Min({k, Len(seq)}))

\* chain[:k] that would leave out the element at the fault location.
GetSliceBefore(c, k) ==
    IF c.form = "Sequence" THEN ElemChain("Sequence", UpTo(c.obj, k - 1))
    ELSE ElemChain("Mapping", Dict(<<>>, UpTo(c.obj, k - 1)))

\* ElemChain.__getitem__(slice(None, k)): ElemChain(self.obj[key]) of a
\* sequence, ElemChain(dict(tuple(self.obj.items())[key])) of a mapping.
GetSlice(c, k) ==
    IF c.form = "Sequence" THEN ElemChain("Sequence", UpTo(c.obj, k))
    ELSE ElemChain("Mapping", Dict(<<>>, UpTo(c.obj, k)))

\* self.obj of a sequence, self.obj.values() of a mapping.
Values(c) ==
    IF c.form = "Sequence" THEN c.obj ELSE [i \in DOMAIN c.obj |-> c.obj[i][2]]

RECURSIVE Reduce(_, _, _, _, _, _, _)

\* After the property of one element (its outcome is p): its exception
\* ends the sum.
Add(p, db, oc, elems, attr, o, i, acc) ==
    IF p.exc # OK THEN [exc |-> p.exc, val |-> None]
    ELSE Reduce(db, oc, elems, attr, o, i + 1, acc + p.val)

\* reduce(lambda x, y: x + y, (i.<attr> for i in obj)); of no element it is
\* a TypeError.
Reduce(db, oc, elems, attr, o, i, acc) ==
    IF elems = <<>> THEN [exc |-> "TypeError", val |-> None]
    ELSE IF i > Len(elems) THEN [exc |-> OK, val |-> acc]
    ELSE Add(Property(db, oc, elems[i], attr, o), db, oc, elems, attr, o, i, acc)

\* int(math.sqrt(n))
Isqrt(n) == CHOOSE r \in 0 .. n : r * r <= n /\ n < (r + 1) * (r + 1)

----------------------------------------------------------------------------
(* ChainsSystem.__parse_obj__. A text is a sequence of characters; a run   *)
(* of word characters (\w+) is one member of the sequence, and no two runs *)
(* stand side by side.                                                     *)

Punctuation == {"(", ")", ",", " ", ":", ";", "'", "\""}

Quotes == {"'", "\""}

\* \w+
IsWord(chars, i) == i \in DOMAIN chars /\ chars[i] \notin Punctuation

Is(chars, i, c) == i \in DOMAIN chars /\ chars[i] = c

\* [^(]*\) matches after position i.
Closes(chars, i) ==
    \E j \in i + 1 .. Len(chars) :
        chars[j] = ")" /\ \A k \in i + 1 .. j - 1 : chars[k] # "("

\* delimiter_pattern matches at i: ;\s*(?![^(]*\))
Delimiter(chars, i) == Is(chars, i, ";") /\ ~Closes(chars, i)

\* \s* from position i: the position after the white space.
RECURSIVE SkipSpaces(_, _)
SkipSpaces(chars, i) == IF Is(chars, i, " ") THEN SkipSpaces(chars, i + 1) ELSE i

\* re.split(delimiter_pattern, self.obj), from position i; cur is the part
\* read so far, acc the parts before it.
RECURSIVE Split(_, _, _, _)
Split(chars, i, cur, acc) ==
    IF i > Len(chars) THEN Append(acc, cur)
    ELSE IF Delimiter(chars, i) THEN Split(chars, SkipSpaces(chars, i + 1), <<>>, Append(acc, cur))
    ELSE Split(chars, i + 1, Append(cur, chars[i]), acc)

\* (?P<type>\w+)\((?P<args>.*?)\) at position q, named name: the lazy args
\* end before the first ")".
TypeArgs(chars, name, q) ==
    IF IsWord(chars, q) /\ Is(chars, q + 1, "(") /\ \E j \in q + 2 .. Len(chars) : chars[j] = ")"
    THEN [found |-> TRUE, name |-> name, type |-> chars[q],
          args |-> SubSeq(chars, q + 2, Min({j \in q + 2 .. Len(chars) : chars[j] = ")"}) - 1),
          end |-> Min({j \in q + 2 .. Len(chars) : chars[j] = ")"})]
    ELSE [found |-> FALSE]

\* iterable_pattern, and mapping_pattern ((?P<name>\w+):)\s*... at p.
MatchAt(chars, p, mapping) ==
    IF ~mapping THEN TypeArgs(chars, "", p)
    ELSE IF IsWord(chars, p) /\ Is(chars, p + 1, ":")
    THEN TypeArgs(chars, chars[p], SkipSpaces(chars, p + 2))
    ELSE [found |-> FALSE]

RECURSIVE FindIter(_, _, _, _)

\* After the attempt at position p (its outcome is mt).
Found1(mt, chars, p, mapping, acc) ==
    IF mt.found THEN FindIter(chars, mt.end + 1, mapping, Append(acc, mt))
    ELSE FindIter(chars, p + 1, mapping, acc)

\* tuple(re.finditer(pattern, chains[n])): the matches from left to right,
\* none overlapping another.
FindIter(chars, p, mapping, acc) ==
    IF p > Len(chars) THEN acc
    ELSE Found1(MatchAt(chars, p, mapping), chars, p, mapping, acc)

\* elem.group('args').split(', ')
RECURSIVE SplitArgs(_, _, _, _)
SplitArgs(chars, i, cur, acc) ==
    IF i > Len(chars) THEN Append(acc, cur)
    ELSE IF Is(chars, i, ",") /\ Is(chars, i + 1, " ")
    THEN SplitArgs(chars, i + 2, <<>>, Append(acc, cur))
    ELSE SplitArgs(chars, i + 1, Append(cur, chars[i]), acc)

\* x.strip('\'\"')
RECURSIVE Strip(_)
Strip(x) ==
    IF x # <<>> /\ Head(x) \in Quotes THEN Strip(Tail(x))
    ELSE IF x # <<>> /\ x[Len(x)] \in Quotes THEN Strip(SubSeq(x, 1, Len(x) - 1))
    ELSE x

\* The characters of x as one text.
RECURSIVE Text(_)
Text(x) == IF x = <<>> THEN "" ELSE Head(x) \o Text(Tail(x))

\* The text of an argument.
ArgOf(x) == PyStr(Text(x))

Args(chars) == [i \in DOMAIN SplitArgs(chars, 1, <<>>, <<>>) |->
                   ArgOf(Strip(SplitArgs(chars, 1, <<>>, <<>>)[i]))]

\* A Decimal made by globals()['Decimal'](*args): no element.
NoVariant(type, args, r) ==
    IF r.exc # OK THEN NoElement(type, args, r.exc)
    ELSE Element(type, args, <<r.val>>)

\* globals()[type](*args): the eight variants, and Decimal for the other
\* names of the module; a name that is not in it is a KeyError.
Globals(type, args) ==
    IF type \in Variants THEN Construct(type, args)
    ELSE IF type = "Decimal"
    THEN IF Len(args) # 1 THEN NoElement(type, args, "TypeError")
         ELSE NoVariant(type, args, Coerce("Decimal", args[1]))
    ELSE NoElement(type, args, "KeyError")

RECURSIVE Map(_, _, _, _)

\* After the construction of the element of match i (its outcome is el).
Mapped(el, matches, mapping, i, acc) ==
    IF el.exc # OK THEN [exc |-> el.exc]
    ELSE Map(matches, mapping, i + 1,
             Append(acc, IF mapping THEN <<matches[i].name, el>> ELSE el))

\* map(lambda elem: ..., chain): the elements, or the (name, element)
\* pairs, of the matches from i on; an exception ends it.
Map(matches, mapping, i, acc) ==
    IF i > Len(matches) THEN [exc |-> OK, items |-> acc]
    ELSE Mapped(Globals(matches[i].type, Args(matches[i].args)), matches, mapping, i, acc)

\* ElemChain(dict(map(...))) and ElemChain(tuple(map(...)))
ChainOf(r, mapping) ==
    IF r.exc # OK THEN r
    ELSE IF mapping THEN ElemChain("Mapping", Dict(<<>>, r.items))
    ELSE ElemChain("Sequence", r.items)

\* The body of the loop: mapping_pattern where it matches at all,
\* iterable_pattern where it does not.
ParseChain(chars) ==
    IF FindIter(chars, 1, TRUE, <<>>) # <<>>
    THEN ChainOf(Map(FindIter(chars, 1, TRUE, <<>>), TRUE, 1, <<>>), TRUE)
    ELSE ChainOf(Map(FindIter(chars, 1, FALSE, <<>>), FALSE, 1, <<>>), FALSE)

RECURSIVE ParseChains(_, _, _)

\* After the chain of part n (it is c).
Parsed(c, parts, n, acc) ==
    IF c.exc # OK THEN [exc |-> c.exc]
    ELSE ParseChains(parts, n + 1, Append(acc, c))

\* for n in range(len(chains)): ...; self.obj = chains
ParseChains(parts, n, acc) ==
    IF n > Len(parts) THEN [exc |-> OK, obj |-> acc]
    ELSE Parsed(ParseChain(parts[n]), parts, n, acc)

\* ChainsSystem(text)
parse_obj(chars) == ParseChains(Split(chars, 1, <<>>, <<>>), 1, <<>>)

----------------------------------------------------------------------------
(* TypesManager and config_manager. The configuration file is the sequence *)
(* of its lines "name = value"; a value is a sequence of characters as the *)
(* texts above, and so is the text of a Python value; a name is the        *)
(* sequence of the parts it is made of.                                    *)

\* A Python value: its type and its text (repr without quotes).
Typed(type, chars) == [type |-> type, val |-> chars]

NoneVal == Typed("NoneType", <<"None">>)

Gives(v) == [exc |-> OK, val |-> v]

Throws(exc) == [exc |-> exc, val |-> NoneVal]

\* The literals of bool, int and float that occur.
Bools == {"True", "False"}
Ints == {"0", "1", "3"}
Floats == {"0.4"}

\* A text in quotes, none of them inside.
Quoted(chars) ==
    /\ Len(chars) >= 2
    /\ chars[1] \in Quotes /\ chars[Len(chars)] = chars[1]
    /\ \A i \in 2 .. Len(chars) - 1 : chars[i] # chars[1]

\* ast.literal_eval(text): a literal is evaluated, an expression that is
\* no literal (a name) is a ValueError, a text that is no expression (the
\* empty text, words side by side) a SyntaxError.
literal_eval(chars) ==
    IF Len(chars) = 1 /\ chars[1] \in Bools THEN Gives(Typed("bool", chars))
    ELSE IF Len(chars) = 1 /\ chars[1] \in Ints THEN Gives(Typed("int", chars))
    ELSE IF Len(chars) = 1 /\ chars[1] \in Floats THEN Gives(Typed("float", chars))
    ELSE IF chars = <<"None">> THEN Gives(NoneVal)
    ELSE IF Quoted(chars) THEN Gives(Typed("str", SubSeq(chars, 2, Len(chars) - 1)))
    ELSE IF Len(chars) = 1 /\ chars[1] \notin Punctuation \cup Quotes THEN Throws("ValueError")
    ELSE Throws("SyntaxError")

\* re.search(r"Decimal\('([^']+)'\)", text): the places it matches at.
DecimalAt(chars) ==
    {i \in DOMAIN chars :
        /\ Is(chars, i, "Decimal") /\ Is(chars, i + 1, "(") /\ Is(chars, i + 2, "'")
        /\ i + 3 \in DOMAIN chars /\ chars[i + 3] \notin Quotes
        /\ Is(chars, i + 4, "'") /\ Is(chars, i + 5, ")")}

\* Decimal(text)
ToDecimal(x) ==
    IF x \in Ints \cup Floats THEN Gives(Typed("Decimal", <<x>>)) ELSE Throws("InvalidOperation")

\* After ast.literal_eval (its outcome is r): except ValueError: pass.
Evaluated(r, value) == IF r.exc = "ValueError" THEN Gives(value) ELSE r

\* _TypesHandler.__type_parser, of a str.
type_parser(value) ==
    IF DecimalAt(value.val) # {} THEN ToDecimal(value.val[Min(DecimalAt(value.val)) + 3])
    ELSE Evaluated(literal_eval(value.val), value)

\* _TypesHandler.__to_string
to_string(value) ==
    IF value.type = "Decimal" THEN Typed("str", <<"Decimal", "(", "'">> \o value.val \o <<"'", ")">>)
    ELSE Typed("str", value.val)

\* _TypesHandler.__quote: "'" in value of a value that is no str is a
\* TypeError.
quote(value) ==
    IF value.type # "str" THEN Throws("TypeError")
    ELSE IF \E i \in DOMAIN value.val : value.val[i] = "'"
    THEN Gives(Typed("str", <<"\"">> \o value.val \o <<"\"">>))
    ELSE Gives(Typed("str", <<"'">> \o value.val \o <<"'">>))

\* _TypesHandler.__to_decimal: Decimal(str(value)) of a float,
\* Decimal(value) of any other value; InvalidOperation, and the TypeError
\* Decimal(None) raises itself, come out as TypeError.
to_decimal(value) ==
    IF value.type \in {"int", "float", "Decimal"} THEN Gives(Typed("Decimal", value.val))
    ELSE IF value.type = "bool"
    THEN Gives(Typed("Decimal", IF value.val = <<"True">> THEN <<"1">> ELSE <<"0">>))
    ELSE IF value.type = "str" /\ Len(value.val) = 1 /\ ToDecimal(value.val[1]).exc = OK
    THEN ToDecimal(value.val[1])
    ELSE Throws("TypeError")

\* The conversions after __to_decimal (its outcome is r): __to_string, then
\* __quote, as they are asked for.
Stringed(r, as_string, quoting) ==
    IF r.exc # OK THEN r
    ELSE IF quoting THEN quote(IF as_string THEN to_string(r.val) ELSE r.val)
    ELSE IF as_string THEN Gives(to_string(r.val))
    ELSE r

\* The conversions after the parsing (its outcome is r): the entry of
\* __conversions_options for (as_decimal, as_string, quoting).
Converted(r, as_decimal, as_string, quoting) ==
    IF r.exc # OK THEN r
    ELSE Stringed(IF as_decimal THEN to_decimal(r.val) ELSE r, as_string, quoting)

\* TypesManager(value, as_decimal=..., as_string=..., quoting=...)
TypesManager(value, as_decimal, as_string, quoting) ==
    Converted(IF value.type = "str" THEN type_parser(value) ELSE Gives(value),
              as_decimal, as_string, quoting)

\* The text "param = " is found in the line of name: param is the end of
\* name.
IsSuffix(param, name) ==
    /\ Len(param) <= Len(name)
    /\ SubSeq(name, Len(name) - Len(param) + 1, Len(name)) = param

\* re.search(pattern, current_config_data): the lines that
\* (?P<name>{param}) = (?P<value>.+)\n matches in.
MatchedParam(file, param) ==
    {i \in DOMAIN file : IsSuffix(param, file[i].name) /\ file[i].value # <<>>}

Outcome(file, exc, val) == [file |-> file, exc |-> exc, val |-> val]

\* current_config_data.replace(old, new, 1) and the writing of the file,
\* r being the outcome of the formatting of new_val.
Replace(file, i, r) ==
    IF r.exc # OK THEN Outcome(file, r.exc, NoneVal)
    ELSE Outcome([file EXCEPT ![i].value = r.val.val], OK, NoneVal)

\* new_val = TypesManager(new_val); new_val = __formats[type(new_val)]();
\* except KeyError: new_val = TypesManager(new_val, as_string=True)
Format(r) ==
    IF r.exc # OK THEN r
    ELSE IF r.val.type = "str" THEN TypesManager(r.val, FALSE, FALSE, TRUE)
    ELSE TypesManager(r.val, FALSE, TRUE, FALSE)

\* The reading of a line.
ReadLine(file, r) == Outcome(file, r.exc, r.val)

\* config_manager(param, new_val); new_val = NoneVal reads.
config_manager(file, param, new_val) ==
    IF MatchedParam(file, param) = {} THEN Outcome(file, OK, NoneVal)
    ELSE IF new_val = NoneVal
    THEN ReadLine(file, TypesManager(Typed("str", file[Min(MatchedParam(file, param))].value),
                                     FALSE, FALSE, FALSE))
    ELSE Replace(file, Min(MatchedParam(file, param)),
                 Format(TypesManager(new_val, FALSE, FALSE, FALSE)))

----------------------------------------------------------------------------
(* The short-circuit currents of a chain. A Decimal is a whole number of   *)
(* units of 10 ** -places; the voltage is counted in thousandths, the      *)
(* summary resistance in tenths.                                           *)

\* Decimal(math.sqrt(3)), in thousandths.
Sqrt3 == 1732

SYSTEM_VOLTAGE_IN_KILOVOLTS == <<"SYSTEM", "_", "VOLTAGE", "_", "IN", "_", "KILOVOLTS">>

CALCULATIONS_ACCURACY == <<"CALCULATIONS", "_", "ACCURACY">>

\* The thousandths in a number.
Thousandths(v) ==
    IF v.type = "bool" THEN (IF v.val = <<"True">> THEN 1000 ELSE 0)
    ELSE (("0" :> 0) @@ ("1" :> 1000) @@ ("3" :> 3000) @@ ("0.4" :> 400))[v.val[1]]

\* The number of places an int stands for.
Places(v) ==
    IF v.type = "bool" THEN (IF v.val = <<"True">> THEN 1 ELSE 0)
    ELSE (("0" :> 0) @@ ("1" :> 1) @@ ("3" :> 3))[v.val[1]]

\* The quotient q of n by d, r remaining, rounded half to even.
HalfEven(q, r, d) ==
    IF 2 * r < d THEN q
    ELSE IF 2 * r > d THEN q + 1
    ELSE IF q % 2 = 0 THEN q ELSE q + 1

Amount(n, places) == [exc |-> OK, val |-> n, places |-> places]

NoAmount(exc) == [exc |-> exc, val |-> None, places |-> None]

\* round(n / d, places), of a Decimal n / d: ROUND_HALF_EVEN.
Round(n, d, places) ==
    Amount(HalfEven((n * 10 ^ places) \div d, (n * 10 ^ places) % d, d), places)

\* round(amount, accuracy), accuracy being read from the configuration:
\* ndigits is an int (a bool is one) or None.
Rounded(n, d, accuracy) ==
    IF accuracy.exc # OK THEN NoAmount(accuracy.exc)
    ELSE IF accuracy.val = NoneVal THEN Round(n, d, 0)
    ELSE IF accuracy.val.type \in {"int", "bool"} THEN Round(n, d, Places(accuracy.val))
    ELSE NoAmount("TypeError")

\* Decimal(math.sqrt(r ** 2 + x ** 2)), in tenths.
Impedance(r, x) == Isqrt(100 * (r.val * r.val + x.val * x.val))

\* U / Decimal(math.sqrt(3)) / self.__three_phase_summary_resistance(),
\* rounded: u is the voltage read from the configuration, which is to be a
\* number a Decimal divides (an int or a Decimal); r and x are the sums of
\* resistance_r1 and reactance_x1, the first exception of which goes
\* through; a division by zero raises.
Current(u, r, x, accuracy) ==
    IF u.exc # OK THEN NoAmount(u.exc)
    ELSE IF u.val = NoneVal \/ u.val.type \notin {"int", "bool", "Decimal"} THEN NoAmount("TypeError")
    ELSE IF r.exc # OK THEN NoAmount(r.exc)
    ELSE IF x.exc # OK THEN NoAmount(x.exc)
    ELSE IF r.val = 0 /\ x.val = 0 THEN NoAmount("DivisionByZero")
    ELSE Rounded(Thousandths(u.val) * 10, Sqrt3 * Impedance(r, x), accuracy)

\* ElemChain.three_phase_current_short_circuit
three_phase_current_short_circuit(file, db, oc, c, o) ==
    Current(config_manager(file, SYSTEM_VOLTAGE_IN_KILOVOLTS, NoneVal),
            Reduce(db, oc, Values(c), "r1", o, 1, 0),
            Reduce(db, oc, Values(c), "x1", o, 1, 0),
            config_manager(file, CALCULATIONS_ACCURACY, NoneVal))

\* sqrt(3) * I3, rounded: the current a forgotten division by 2 gives.
TwoPhaseUndivided(i3, accuracy) ==
    IF i3.exc # OK THEN i3
    ELSE Rounded(Sqrt3 * i3.val, 1000 * 10 ^ i3.places, accuracy)

\* round(Decimal(math.sqrt(3)) / 2 * I3, accuracy), of the three-phase
\* current i3 the property gave.
TwoPhase(i3, accuracy) ==
    IF i3.exc # OK THEN i3
    ELSE Rounded((Sqrt3 \div 2) * i3.val, 1000 * 10 ^ i3.places, accuracy)

\* ElemChain.two_phase_current_short_circuit
two_phase_current_short_circuit(file, db, oc, c, o) ==
    TwoPhase(three_phase_current_short_circuit(file, db, oc, c, o),
             config_manager(file, CALCULATIONS_ACCURACY, NoneVal))

\* field(init=False, default=config_manager('SYSTEM_VOLTAGE_IN_KILOVOLTS')),
\* as the class T is defined: the value read then, or the exception.
FieldDefault(file) ==
    [exc |-> config_manager(file, SYSTEM_VOLTAGE_IN_KILOVOLTS, NoneVal).exc,
     val |-> config_manager(file, SYSTEM_VOLTAGE_IN_KILOVOLTS, NoneVal).val]

----------------------------------------------------------------------------
(* The catalog as a state machine: one action for each operation.          *)

\* reactance_x1 of a row that does not give it (the column's default).
DefaultX1 == 0

\* The rows of the data of insert_joined_table, and the data.
Row == [d : [SUBTABLES -> Vals], r1 : FVals, x1 : {DefaultX1}]
Data == UNION {[1 .. n -> Row] : n \in 1 .. MaxRows}

\* Data some rows of which leave a dimension column without a value: such a
\* call raises and changes no table.
RowOrNone == [d : [SUBTABLES -> Vals \cup {None}], r1 : FVals, x1 : {DefaultX1}]
DataOrNone == UNION {[1 .. n -> RowOrNone] : n \in 1 .. MaxRows}

\* old_source_data, new_source_data and source_data: a value for each of the
\* dimensions given (the empty function is the empty dict).
Sources == UNION {[D -> Vals] : D \in SUBSET SUBTABLES}

\* target_row_data: a value for each of the fact columns supplied.
Targets == UNION {[C -> FVals] : C \in SUBSET FactCols}

\* The calls of update_joined_table: one that edits the fact row, or one
\* that edits the source tables.
Updates ==
    {u \in [old : Sources, new : Sources, target : Targets] :
        u.new = <<>> \/ u.target = <<>>}

\* What the code leaves to the database and the driver: which row a scalar
\* subquery of several rows yields, and whether an UPDATE that sets nothing is
\* refused. No statement consults both, so two oracles give every outcome.
QueryOracles ==
    {[first |-> "min", empty_raises |-> TRUE], [first |-> "max", empty_raises |-> FALSE]}
EngineOracles == [engine_fk : BOOLEAN]

\* The ids of the model stay within MaxId.
Fits(db) ==
    /\ \A t \in SUBTABLES : \A r \in db.dim[t] : r.id <= MaxId
    /\ \A f \in db.fact : f.id <= MaxId

Idle == [pc |-> "idle"]

\* The catalog after db_install on an empty database, its tables empty.
Installed ==
    /\ dialect \in {"MySQL", "SQLite"}
    /\ engine = dialect
    /\ exists = Tables
    /\ dim = [t \in SUBTABLES |-> {}]
    /\ fact = {}
    /\ foreign_keys = (dialect = "MySQL")
    /\ sess = Idle

\* No element, chain, system or result yet.
Nothing == [exc |-> "nothing"]

\* A process that has not yet reflected, parsed or constructed anything.
Started ==
    /\ metadata = {}
    /\ config_file = <<>>
    /\ text = <<>>
    /\ system = Nothing
    /\ element = Nothing
    /\ chain = Nothing
    /\ returned = Nothing
    /\ other_contact = {}
    /\ T_voltage = FieldDefault(config_file)

Init == Installed /\ Started

\* The operation leaves the database db.
Becomes(db) ==
    /\ Fits(db)
    /\ exists' = db.exists
    /\ dim' = db.dim
    /\ fact' = db.fact
    /\ foreign_keys' = db.foreign_keys
    /\ UNCHANGED <<dialect, engine, sess, tools>>

InsertJoined ==
    \E data \in Data : Becomes(insert_joined_table(DB, data).db)

UpdateJoined ==
    \E u \in Updates, o \in QueryOracles :
        Becomes(update_joined_table(DB, u.old, u.new, u.target, o).db)

DeleteJoined ==
    \E src \in Sources, from_source \in BOOLEAN, o \in QueryOracles :
        Becomes(delete_joined_table(DB, src, from_source, o).db)

ResetId ==
    \E t \in Tables, o \in EngineOracles : Becomes(reset_id(DB, t, o).db)

DropTable ==
    \E t \in Tables, confirmed \in BOOLEAN, forced \in BOOLEAN, o \in EngineOracles :
        Becomes(drop_table(DB, t, confirmed, forced, o).db)

CreateTable ==
    \E t \in Tables, drop_first \in BOOLEAN, forced_drop \in BOOLEAN, o \in EngineOracles :
        Becomes(create_table(DB, t, drop_first, forced_drop, o).db)

\* The joined operations on the installed catalog.
Next ==
    \/ InsertJoined
    \/ UpdateJoined
    \/ DeleteJoined
    \/ ResetId

Spec == Init /\ [][Next]_vars

\* The catalog with its tables dropped and created.
NextCatalog ==
    \/ InsertJoined
    \/ DeleteJoined
    \/ ResetId
    \/ DropTable
    \/ CreateTable

SpecCatalog == Init /\ [][NextCatalog]_vars

\* config_manager('DB_EXISTING_CONNECTION', v): the engine stays bound.
WriteConnection ==
    /\ \E v \in {"MySQL", "SQLite"} : dialect' = v
    /\ UNCHANGED <<engine, exists, dim, fact, foreign_keys, sess, tools>>

\* The joined operations, the configured connection being changed while
\* the program runs.
NextConnection ==
    \/ InsertJoined
    \/ DeleteJoined
    \/ ResetId
    \/ WriteConnection

SpecConnection == Init /\ [][NextConnection]_vars

\* What db_install leaves to the engine and to the order of reflection.
InstallOracles == [engine_fk : BOOLEAN, loaded : SUBSET SUBTABLES]

\* db_install leaves the database and the metadata of r.
Installs(r) ==
    /\ Fits(r.db)
    /\ exists' = r.db.exists
    /\ dim' = r.db.dim
    /\ fact' = r.db.fact
    /\ foreign_keys' = r.db.foreign_keys
    /\ metadata' = r.md
    /\ UNCHANGED <<dialect, engine, sess, config_file, text, system, element, chain, returned,
                   other_contact, T_voltage>>

DbInstall ==
    \E clear \in BOOLEAN, o \in InstallOracles :
        Installs(db_install(DB, metadata, clear, o))

\* The catalog installed again and again in one process, its tables filled,
\* emptied and dropped in between.
NextInstall ==
    \/ DbInstall
    \/ InsertJoined
    \/ DeleteJoined
    \/ DropTable

\* An empty database and a process that has not installed anything.
InitInstall ==
    /\ dialect \in {"MySQL", "SQLite"}
    /\ engine = dialect
    /\ exists = {}
    /\ dim = [t \in SUBTABLES |-> {}]
    /\ fact = {}
    /\ foreign_keys = (dialect = "MySQL")
    /\ sess = Idle
    /\ Started

SpecInstall == InitInstall /\ [][NextInstall]_vars

----------------------------------------------------------------------------
(* The elements: constructed from arguments and read against a catalog.    *)

\* The arguments of a constructor call: texts (empty, numerals, no numeral)
\* and numbers; a cable's length is a number of metres.
ArgValues == {PyStr(""), PyStr("1"), PyStr("x"), PyInt("1000")}

ArgsOf(variant) == UNION {[1 .. n -> ArgValues] : n \in 0 .. Len(Fields[variant]) + 1}

\* The installed catalog, empty or as an insert_joined_table of one row
\* leaves it.
EmptyCatalog ==
    [exists |-> Tables, dim |-> [t \in SUBTABLES |-> {}], fact |-> {}, foreign_keys |-> TRUE]

Catalogs ==
    {EmptyCatalog} \cup {insert_joined_table(EmptyCatalog, <<row>>).db : row \in Row}

Contacts == {{}, {[contact_type |-> "1", r1 |-> 1, x1 |-> 0]}}

InitElements ==
    /\ dialect = "SQLite"
    /\ engine = dialect
    /\ exists = Tables
    /\ \E c \in Catalogs : dim = c.dim /\ fact = c.fact
    /\ foreign_keys = FALSE
    /\ sess = Idle
    /\ metadata = {}
    /\ config_file = <<>>
    /\ text = <<>>
    /\ system = Nothing
    /\ element = Nothing
    /\ chain = Nothing
    /\ returned = Nothing
    /\ other_contact \in Contacts
    /\ T_voltage = FieldDefault(config_file)

\* element = variant(*args)
ConstructElement ==
    /\ element = Nothing
    /\ \E variant \in Variants : \E args \in ArgsOf(variant) :
          element' = Construct(variant, args)
    /\ UNCHANGED <<dialect, engine, exists, dim, fact, foreign_keys, sess, metadata, config_file,
                   text, system, chain, returned, other_contact, T_voltage>>

\* element.resistance_r1 or element.reactance_x1; the session scope of the
\* query leaves the connection with its PRAGMA.
ReadProperty ==
    /\ element # Nothing /\ element.exc = OK
    /\ returned = Nothing
    /\ \E attr \in FactCols, o \in QueryOracles :
          returned' = Property(DB, other_contact, element, attr, o)
    /\ foreign_keys' = Pragma(DB).foreign_keys
    /\ UNCHANGED <<dialect, engine, exists, dim, fact, sess, metadata, config_file,
                   text, system, element, chain, other_contact, T_voltage>>

\* The element and what was read of it go out of scope.
Forget ==
    /\ element # Nothing
    /\ element' = Nothing
    /\ returned' = Nothing
    /\ UNCHANGED <<dialect, engine, exists, dim, fact, foreign_keys, sess, metadata, config_file,
                   text, system, chain, other_contact, T_voltage>>

NextElements ==
    \/ ConstructElement
    \/ ReadProperty
    \/ Forget

SpecElements == InitElements /\ [][NextElements]_vars

----------------------------------------------------------------------------
(* The chains: made of elements, sliced, and their current calculated.     *)

\* The elements of the chains: QF(1), Q(2, '2'), W('1', 1, 1, 1000), Line().
Parts ==
    {Construct("QF", <<PyInt("1")>>), Construct("Q", <<PyInt("2"), PyStr("2")>>),
     Construct("W", <<PyStr("1"), PyInt("1"), PyInt("1"), PyInt("1000")>>),
     Construct("Line", <<>>)}

\* The labels of the elements of a mapping.
Labels == {"A", "B", "C"}

\* ElemChain((e, ...)) and ElemChain({label: e, ...}) of up to MaxChain
\* elements.
Chains ==
    UNION {{ElemChain("Sequence", obj) : obj \in [1 .. n -> Parts]}
           \cup {ElemChain("Mapping", obj) :
                    obj \in {d \in [1 .. n -> Labels \X Parts] :
                                \A i, j \in 1 .. n : d[i][1] = d[j][1] => i = j}}
           : n \in 1 .. MaxChain}

\* The lines of config.py the currents read: the voltage, Decimal('0.4'),
\* and the accuracy, 3 or 1.
ChainConfigs ==
    {<<[name |-> SYSTEM_VOLTAGE_IN_KILOVOLTS, value |-> <<"Decimal", "(", "'", "0.4", "'", ")">>],
       [name |-> CALCULATIONS_ACCURACY, value |-> <<accuracy>>]>> : accuracy \in {"3", "1"}}

InitChains ==
    /\ dialect = "SQLite"
    /\ engine = dialect
    /\ exists = Tables
    /\ \E c \in Catalogs : dim = c.dim /\ fact = c.fact
    /\ foreign_keys = FALSE
    /\ sess = Idle
    /\ metadata = {}
    /\ config_file \in ChainConfigs
    /\ text = <<>>
    /\ system = Nothing
    /\ element = Nothing
    /\ chain = Nothing
    /\ returned = Nothing
    /\ other_contact \in Contacts
    /\ T_voltage = FieldDefault(config_file)

MakeChain ==
    /\ chain = Nothing
    /\ chain' \in Chains
    /\ UNCHANGED <<dialect, engine, exists, dim, fact, foreign_keys, sess, metadata, config_file,
                   text, system, element, returned, other_contact, T_voltage>>

\* chain[:k]
Slice ==
    /\ chain # Nothing /\ returned = Nothing
    /\ \E k \in 0 .. Len(chain.obj) + 1 :
          returned' = [op |-> "slice", k |-> k, val |-> GetSlice(chain, k)]
    /\ UNCHANGED <<dialect, engine, exists, dim, fact, foreign_keys, sess, metadata, config_file,
                   text, system, element, chain, other_contact, T_voltage>>

\* chain.three_phase_current_short_circuit
ThreePhaseCurrent ==
    /\ chain # Nothing /\ returned = Nothing
    /\ \E o \in QueryOracles :
          returned' = [op |-> "current",
                       val |-> three_phase_current_short_circuit(config_file, DB,
                                                                 other_contact, chain, o)]
    /\ foreign_keys' = Pragma(DB).foreign_keys
    /\ UNCHANGED <<dialect, engine, exists, dim, fact, sess, metadata, config_file,
                   text, system, element, chain, other_contact, T_voltage>>

\* chain.two_phase_current_short_circuit, and the three-phase current the
\* chain gives beside it.
TwoPhaseCurrent ==
    /\ chain # Nothing /\ returned = Nothing
    /\ \E o \in QueryOracles :
          returned' = [op |-> "current2",
                       val |-> two_phase_current_short_circuit(config_file, DB,
                                                               other_contact, chain, o),
                       i3 |-> three_phase_current_short_circuit(config_file, DB,
                                                                other_contact, chain, o)]
    /\ foreign_keys' = Pragma(DB).foreign_keys
    /\ UNCHANGED <<dialect, engine, exists, dim, fact, sess, metadata, config_file,
                   text, system, element, chain, other_contact, T_voltage>>

ForgetChain ==
    /\ chain # Nothing
    /\ chain' = Nothing
    /\ returned' = Nothing
    /\ UNCHANGED <<dialect, engine, exists, dim, fact, foreign_keys, sess, metadata, config_file,
                   text, system, element, other_contact, T_voltage>>

NextChains ==
    \/ MakeChain
    \/ Slice
    \/ ThreePhaseCurrent
    \/ TwoPhaseCurrent
    \/ ForgetChain

SpecChains == InitChains /\ [][NextChains]_vars

----------------------------------------------------------------------------
(* The voltage: written to the configuration, read by the currents of a    *)
(* chain, and held by the transformers.                                    *)

\* The voltages written: Decimal('0.4'), Decimal('1'), Decimal('3').
Voltages == {Typed("Decimal", <<"0.4">>), Typed("Decimal", <<"1">>), Typed("Decimal", <<"3">>)}

\* T(power, vector_group): the instance has the fields the generated
\* __init__ assigns, and voltage, which is the default of the class.
ConstructT(args, default) ==
    IF Construct("T", args).exc # OK THEN Construct("T", args)
    ELSE [exc |-> OK, variant |-> "T", args |-> args,
          fields |-> Construct("T", args).fields, voltage |-> default.val]

\* config_manager('SYSTEM_VOLTAGE_IN_KILOVOLTS', v)
WriteVoltage ==
    /\ returned = Nothing
    /\ \E v \in Voltages :
          config_file' = config_manager(config_file, SYSTEM_VOLTAGE_IN_KILOVOLTS, v).file
    /\ UNCHANGED <<dialect, engine, exists, dim, fact, foreign_keys, sess, metadata,
                   text, system, element, chain, returned, other_contact, T_voltage>>

\* element = T(1, '1'), or T(1)
MakeT ==
    /\ element = Nothing
    /\ \E args \in {<<PyInt("1"), PyStr("1")>>, <<PyInt("1")>>} :
          element' = ConstructT(args, T_voltage)
    /\ UNCHANGED <<dialect, engine, exists, dim, fact, foreign_keys, sess, metadata, config_file,
                   text, system, chain, returned, other_contact, T_voltage>>

\* chain = ElemChain((e,))
MakeChainOfOne ==
    /\ chain = Nothing
    /\ \E e \in Parts : chain' = ElemChain("Sequence", <<e>>)
    /\ UNCHANGED <<dialect, engine, exists, dim, fact, foreign_keys, sess, metadata, config_file,
                   text, system, element, returned, other_contact, T_voltage>>

\* The program is started again: the modules are loaded anew.
Restart ==
    /\ element = Nothing /\ chain = Nothing
    /\ T_voltage' = FieldDefault(config_file)
    /\ UNCHANGED <<dialect, engine, exists, dim, fact, foreign_keys, sess, metadata, config_file,
                   text, system, element, chain, returned, other_contact>>

NextVoltage ==
    \/ WriteVoltage
    \/ MakeT
    \/ Forget
    \/ MakeChainOfOne
    \/ ThreePhaseCurrent
    \/ ForgetChain
    \/ Restart

SpecVoltage == InitChains /\ [][NextVoltage]_vars

----------------------------------------------------------------------------
(* The texts of systems of chains, and their parsing.                      *)

\* The elements as they are written: QF(1), Q(1, ';'), Line(), T(1) without
\* its vector group, QF(1, 1, 1), X(1) of no type of the module, Decimal(1).
ElemsWritten ==
    {[type |-> "QF", args |-> << <<"1">> >>],
     [type |-> "Q", args |-> << <<"1">>, <<"'", ";", "'">> >>],
     [type |-> "Line", args |-> <<>>],
     [type |-> "T", args |-> << <<"1">> >>],
     [type |-> "QF", args |-> << <<"1">>, <<"1">>, <<"1">> >>],
     [type |-> "X", args |-> << <<"1">> >>],
     [type |-> "Decimal", args |-> << <<"1">> >>]}

\* An element with its name, "" being no name.
ItemsWritten == [name : {"", "A", "B"}, elem : ElemsWritten]

ChainsWritten(n) == [1 .. n -> ItemsWritten]

\* The systems of one chain, and of two chains of up to k elements.
SystemsWritten(k) ==
    UNION {{<<c>> : c \in ChainsWritten(n)} : n \in 1 .. MaxChain}
    \cup UNION {{<<c, d>> : c \in ChainsWritten(n[1]), d \in ChainsWritten(n[2])} :
                  n \in {n \in (1 .. MaxChain) \X (1 .. MaxChain) : n[1] + n[2] <= k}}

\* sep.join(parts)
RECURSIVE Join(_, _)
Join(parts, sep) ==
    IF parts = <<>> THEN <<>>
    ELSE IF Len(parts) = 1 THEN parts[1]
    ELSE parts[1] \o sep \o Join(Tail(parts), sep)

\* name: type(arg, ...)
RenderItem(it) ==
    (IF it.name = "" THEN <<>> ELSE <<it.name, ":", " ">>)
        \o <<it.elem.type, "(">> \o Join(it.elem.args, <<",", " ">>) \o <<")">>

RenderChain(c) == Join([i \in DOMAIN c |-> RenderItem(c[i])], <<",", " ">>)

\* The text of a system: its chains separated by ';', the elements of a
\* chain by ', '.
Render(s) == Join([i \in DOMAIN s |-> RenderChain(s[i])], <<";", " ">>)

\* How a text is written: whether white space follows the ',' between
\* arguments, the ',' between elements, the ':' after a label and the ';'
\* between chains, and whether the quotes are double ones.
Styles == [args : BOOLEAN, elems : BOOLEAN, label : BOOLEAN, chains : BOOLEAN,
           double : BOOLEAN]

\* A separator, with or without the white space after it.
Sep(c, space) == IF space THEN <<c, " ">> ELSE <<c>>

\* An argument in the quotes of the style.
InQuotesOf(arg, style) ==
    [i \in DOMAIN arg |-> IF arg[i] = "'" /\ style.double THEN "\"" ELSE arg[i]]

RenderItemAs(it, style) ==
    (IF it.name = "" THEN <<>> ELSE <<it.name>> \o Sep(":", style.label))
        \o <<it.elem.type, "(">>
        \o Join([i \in DOMAIN it.elem.args |-> InQuotesOf(it.elem.args[i], style)],
                Sep(",", style.args))
        \o <<")">>

RenderChainAs(c, style) ==
    Join([i \in DOMAIN c |-> RenderItemAs(c[i], style)], Sep(",", style.elems))

\* The text of a system in a style.
RenderAs(s, style) ==
    Join([i \in DOMAIN s |-> RenderChainAs(s[i], style)], Sep(";", style.chains))

\* system = ChainsSystem(text), the text being written in any style.
ParseStyled ==
    /\ system = Nothing
    /\ \E s \in SystemsWritten(MaxChain), style \in Styles :
          /\ text' = [written |-> s, chars |-> RenderAs(s, style)]
          /\ system' = parse_obj(RenderAs(s, style))
    /\ UNCHANGED <<dialect, engine, exists, dim, fact, foreign_keys, sess, metadata, config_file,
                   element, chain, returned, other_contact, T_voltage>>

\* system = ChainsSystem(text)
ParseText ==
    /\ system = Nothing
    /\ \E s \in SystemsWritten(MaxElems) :
          /\ text' = [written |-> s, chars |-> Render(s)]
          /\ system' = parse_obj(Render(s))
    /\ UNCHANGED <<dialect, engine, exists, dim, fact, foreign_keys, sess, metadata, config_file,
                   element, chain, returned, other_contact, T_voltage>>

ForgetSystem ==
    /\ system # Nothing
    /\ system' = Nothing
    /\ text' = <<>>
    /\ UNCHANGED <<dialect, engine, exists, dim, fact, foreign_keys, sess, metadata, config_file,
                   element, chain, returned, other_contact, T_voltage>>

NextParse ==
    \/ ParseText
    \/ ForgetSystem

SpecParse == Init /\ [][NextParse]_vars

NextStyled ==
    \/ ParseStyled
    \/ ForgetSystem

SpecStyled == Init /\ [][NextStyled]_vars

----------------------------------------------------------------------------
(* The configuration file, read and written.                               *)

\* The names of the lines: ENGINE_ECHO, ECHO, SYSTEM_PHASES.
KeyNames == {<<"ENGINE", "_", "ECHO">>, <<"ECHO">>, <<"SYSTEM", "_", "PHASES">>}

\* The names asked for: those, and SOMETHING_NOT_EXISTING.
Params == KeyNames \cup {<<"SOMETHING", "_", "NOT", "_", "EXISTING">>}

\* The values of the lines of the file at the start: False, 'abc'.
InitTexts == {<<"False">>, <<"'", "abc", "'">>}

\* The values written: True, 1, 0.4, Decimal('0.4'), 'abc', 'a b', and the
\* literal texts 'True', '1', "Decimal('0.4')".
NewVals ==
    {Typed("bool", <<"True">>), Typed("int", <<"1">>), Typed("float", <<"0.4">>),
     Typed("Decimal", <<"0.4">>), Typed("str", <<"abc">>), Typed("str", <<"a", " ", "b">>),
     Typed("str", <<"True">>), Typed("str", <<"1">>),
     Typed("str", <<"Decimal", "(", "'", "0.4", "'", ")">>)}

\* The files of up to MaxLines lines, no two of a name.
ConfigFiles ==
    {f \in UNION {[1 .. n -> [name : KeyNames, value : InitTexts]] : n \in 1 .. MaxLines} :
        \A i, j \in DOMAIN f : f[i].name = f[j].name => i = j}

InitConfig ==
    /\ Installed
    /\ metadata = {}
    /\ config_file \in ConfigFiles
    /\ text = <<>>
    /\ system = Nothing
    /\ element = Nothing
    /\ chain = Nothing
    /\ returned = Nothing
    /\ other_contact = {}
    /\ T_voltage = FieldDefault(config_file)

\* After config_manager (its outcome is r).
Configured(r) ==
    /\ config_file' = r.file
    /\ returned' = [exc |-> r.exc, val |-> r.val]
    /\ UNCHANGED <<dialect, engine, exists, dim, fact, foreign_keys, sess, metadata,
                   text, system, element, chain, other_contact, T_voltage>>

\* config_manager(param)
ReadConfig == \E param \in Params : Configured(config_manager(config_file, param, NoneVal))

\* config_manager(param, new_val)
WriteConfig ==
    \E param \in Params, new_val \in NewVals :
        Configured(config_manager(config_file, param, new_val))

NextConfig ==
    \/ ReadConfig
    \/ WriteConfig

SpecConfig == InitConfig /\ [][NextConfig]_vars

----------------------------------------------------------------------------
(* TypesManager, called with values and texts.                             *)

\* The values converted: True, False, 1, 0.4, Decimal('0.4'), None, and the
\* texts 'True', 'False', '1', '0.4', 'None', "Decimal('0.4')", 'billy',
\* 'a b' and "it's".
TextsConverted ==
    {<<"True">>, <<"False">>, <<"1">>, <<"0.4">>, <<"None">>,
     <<"Decimal", "(", "'", "0.4", "'", ")">>, <<"billy">>, <<"a", " ", "b">>,
     <<"it", "'", "s">>}

ValuesConverted ==
    {Typed("bool", <<"True">>), Typed("bool", <<"False">>), Typed("int", <<"1">>),
     Typed("float", <<"0.4">>), Typed("Decimal", <<"0.4">>), NoneVal}
    \cup {Typed("str", chars) : chars \in TextsConverted}

\* returned = TypesManager(value, as_decimal, as_string, quoting)
Convert ==
    /\ returned = Nothing
    /\ \E value \in ValuesConverted, as_decimal, as_string, quoting \in BOOLEAN :
          returned' = [value |-> value, as_decimal |-> as_decimal, as_string |-> as_string,
                       quoting |-> quoting,
                       out |-> TypesManager(value, as_decimal, as_string, quoting)]
    /\ UNCHANGED <<dialect, engine, exists, dim, fact, foreign_keys, sess, metadata, config_file,
                   text, system, element, chain, other_contact, T_voltage>>

ForgetConverted ==
    /\ returned # Nothing
    /\ returned' = Nothing
    /\ UNCHANGED <<dialect, engine, exists, dim, fact, foreign_keys, sess, metadata, config_file,
                   text, system, element, chain, other_contact, T_voltage>>

NextTypes ==
    \/ Convert
    \/ ForgetConverted

SpecTypes == Init /\ [][NextTypes]_vars

----------------------------------------------------------------------------
(* session_scope step by step: one scope around arbitrary statements.      *)
(* dim and fact are the committed rows; sess.work are the rows as the      *)
(* session's transaction sees them.                                        *)

Rows(db) == [dim |-> db.dim, fact |-> db.fact]

\* The database as the transaction of the session sees it.
Work == [DB EXCEPT !.dim = sess.work.dim, !.fact = sess.work.fact]

\* The exceptions a statement or commit() may raise.
Exceptions == {"OperationalError", "IntegrityError", "KeyError"}

\* Where an exception raised inside the try block goes: the except clause
\* takes sa.exc.OperationalError, anything else goes on to finally.
Handler(exc) == IF exc = "OperationalError" THEN "except" ELSE "finally"

\* session.close() that would leave the transaction as it is.
closeKeepsTransaction(s, db) == [s EXCEPT !.closed = TRUE]

\* session.rollback() and session.close(): both end the transaction and
\* leave the session with the committed rows of db.
rollback(s, db) == [s EXCEPT !.work = Rows(db)]
close(s, db) == [s EXCEPT !.work = Rows(db), !.closed = TRUE]

\* session = Session(); the PRAGMA; yield session.
Enter ==
    /\ sess.pc = "idle"
    /\ sess' = [pc |-> "body", start |-> Rows(DB), work |-> Rows(DB), exc |-> OK,
                out |-> OK, commits |-> 0, closed |-> FALSE]
    /\ foreign_keys' = Pragma(DB).foreign_keys
    /\ UNCHANGED <<dialect, engine, exists, dim, fact, tools>>

\* The outcome r of one statement of the body: the rows change, or the
\* statement raises.
Executed(r) ==
    /\ Fits(r.db)
    /\ sess' = IF r.exc = OK THEN [sess EXCEPT !.work = Rows(r.db)]
               ELSE [sess EXCEPT !.exc = r.exc, !.pc = Handler(r.exc)]
    /\ UNCHANGED <<dialect, engine, exists, dim, fact, foreign_keys, tools>>

\* The body executes a statement (an INSERT into a dimension table).
Execute ==
    /\ sess.pc = "body"
    /\ \E t \in SUBTABLES, v \in Vals \cup {None} : Executed(SqlInsertDim(Work, t, v))

\* The body raises an exception of its own.
Raise ==
    /\ sess.pc = "body"
    /\ \E exc \in Exceptions : sess' = [sess EXCEPT !.exc = exc, !.pc = Handler(exc)]
    /\ UNCHANGED <<dialect, engine, exists, dim, fact, foreign_keys, tools>>

\* The body ends; session.commit() commits the pending rows or raises.
Commit ==
    /\ sess.pc = "body"
    /\ \/ /\ sess' = [sess EXCEPT !.commits = @ + 1, !.pc = "finally"]
          /\ dim' = sess.work.dim
          /\ fact' = sess.work.fact
       \/ /\ \E exc \in Exceptions : sess' = [sess EXCEPT !.exc = exc, !.pc = Handler(exc)]
          /\ UNCHANGED <<dim, fact>>
    /\ UNCHANGED <<dialect, engine, exists, foreign_keys, tools>>

\* except sa.exc.OperationalError as err: session.rollback(); raise err.
Except ==
    /\ sess.pc = "except"
    /\ sess' = [rollback(sess, DB) EXCEPT !.out = sess.exc, !.pc = "finally"]
    /\ UNCHANGED <<dialect, engine, exists, dim, fact, foreign_keys, tools>>

\* finally: session.close(); the exception in flight, if any, goes on to the
\* caller.
Finally ==
    /\ sess.pc = "finally"
    /\ sess' = [close(sess, DB) EXCEPT !.out = sess.exc, !.pc = "done"]
    /\ UNCHANGED <<dialect, engine, exists, dim, fact, foreign_keys, tools>>

\* The caller goes on; it may open another scope.
Leave ==
    /\ sess.pc = "done"
    /\ sess' = Idle
    /\ UNCHANGED <<dialect, engine, exists, dim, fact, foreign_keys, tools>>

NextSession ==
    \/ Enter
    \/ Execute
    \/ Raise
    \/ Commit
    \/ Except
    \/ Finally
    \/ Leave

SpecSession == Init /\ [][NextSession]_vars

----------------------------------------------------------------------------
(* What the catalog promises.                                              *)

\* The value a fact row shows for dimension t: that of the row its foreign
\* key refers to.
ValueOf(db, t, f) ==
    IF f.fk[t] \in DimIds(db, t)
    THEN (CHOOSE r \in db.dim[t] : r.id = f.fk[t]).val
    ELSE None

ValuesOf(db, f) == [t \in SUBTABLES |-> ValueOf(db, t, f)]

\* The fact rows that show the values of src in the dimensions src gives.
Showing(db, src) == {f \in db.fact : \A t \in DOMAIN src : ValueOf(db, t, f) = src[t]}

FullSources == [SUBTABLES -> Vals]

\* C1: when the body of a session_scope ends normally the transaction is
\* committed exactly once; when the body or the commit raises an exception
\* of whatever type, nothing of the transaction is committed or left pending
\* and that exception reaches the caller; the session is closed on every path.
C1_SessionScopeCommitsOrRollsBack ==
    sess.pc = "done" =>
        /\ sess.closed
        /\ sess.out = sess.exc
        /\ sess.work = Rows(DB)
        /\ sess.exc = OK => sess.commits = 1
        /\ sess.exc # OK => sess.commits = 0 /\ Rows(DB) = sess.start

\* A scope on a catalog that holds rows has been left by an exception that
\* is not an OperationalError (no except clause rolled it back).
C1_Witness ==
    /\ sess.pc = "done"
    /\ sess.exc \in Exceptions \ {"OperationalError"}
    /\ sess.start.dim # [t \in SUBTABLES |-> {}]

\* C2: after any sequence of joined inserts, updates and deletes there is at
\* most one fact row for each tuple of dimension values (two rows with the
\* same dimension values, in one call or in two, leave one fact row).
C2_OneFactRowPerDimensionTuple ==
    \A f, g \in fact : ValuesOf(DB, f) = ValuesOf(DB, g) => f = g

\* Whether row i of data is fresh: one of its own dimension values is neither
\* in the table before the call nor in an earlier row of the call.
Fresh(db, data, i) ==
    \E t \in SUBTABLES :
        data[i].d[t] \notin DimVals(db, t) \cup {data[j].d[t] : j \in 1 .. (i - 1)}

RowsIndependent(db, data, r) ==
    r.exc = OK => \A i \in 1 .. Len(data) : r.out[i] = Fresh(db, data, i)

\* C3: for every row of a call of insert_joined_table, whatever the other
\* rows of the call, the fact row is inserted if and only if one of the row's
\* own dimension inserts succeeded.
C3_FactRowIffOwnDimensionInserted ==
    \A data \in DataOrNone : RowsIndependent(DB, data, insert_joined_table(DB, data))

\* C5: in every dimension table the values of the non-key column are
\* pairwise distinct and none is null, after any sequence of joined
\* operations.
C5_DimensionValuesUniqueNotNull ==
    \A t \in SUBTABLES : \A r, q \in dim[t] :
        r.val # None /\ (r.val = q.val => r = q)

\* A dimension table holds two rows, both referred to by fact rows.
C5_Witness ==
    \E t \in SUBTABLES :
        /\ Cardinality(dim[t]) = 2
        /\ \A r \in dim[t] : \E f \in fact : f.fk[t] = r.id

OnlyShowingDeleted(db, src, r) ==
    /\ r.db.dim = db.dim
    /\ r.db.fact \subseteq db.fact
    /\ \A f \in db.fact \ r.db.fact : f \in Showing(db, src)
    /\ r.exc = OK => r.db.fact = db.fact \ Showing(db, src)

\* C7: delete_joined_table(source_data, from_source=False) removes the fact
\* row that shows the values of source_data and no fact row that shows
\* another value, and leaves the dimension tables as they are, also when
\* source_data gives only some of the dimensions.
C7_DeleteRemovesOnlyMatchingFactRow ==
    \A src \in Sources \ {<<>>}, o \in QueryOracles :
        OnlyShowingDeleted(DB, src, delete_joined_table(DB, src, FALSE, o))

\* The fact row f after the values of target have been written into it.
Written(f, target) ==
    [f EXCEPT !.r1 = IF "r1" \in DOMAIN target THEN target["r1"] ELSE @,
              !.x1 = IF "x1" \in DOMAIN target THEN target["x1"] ELSE @]

SuppliedWritten(db, old, target, r) ==
    /\ r.db.dim = db.dim
    /\ r.exc = OK =>
          r.db.fact = {IF f \in Showing(db, old) THEN Written(f, target) ELSE f
                       : f \in db.fact}

\* C8: the fact-row edit of update_joined_table writes every value supplied
\* in target_row, a zero included, into the fact row located by old_source,
\* and changes no other column, no other fact row and no dimension row.
C8_FactEditWritesEverySuppliedValue ==
    \A old \in FullSources, target \in Targets \ {<<>>}, o \in QueryOracles :
        SuppliedWritten(DB, old, target, update_joined_table(DB, old, <<>>, target, o))

\* The rows of dimension t after the row that holds old holds new.
Renamed(rows, old, new) ==
    {IF r.val = old THEN [r EXCEPT !.val = new] ELSE r : r \in rows}

DimensionsEdited(db, old, new, r) ==
    /\ r.db.fact = db.fact
    /\ \A t \in SUBTABLES \ DOMAIN new : r.db.dim[t] = db.dim[t]
    /\ r.exc = OK =>
          \A t \in DOMAIN new : r.db.dim[t] = Renamed(db.dim[t], old[t], new[t])

\* C9: the dimension edit of update_joined_table gives, for each dimension of
\* new_source, the row that holds the old_source value the new_source value;
\* the fact rows keep their ids and foreign keys, and the dimensions that
\* new_source does not name are unchanged.
C9_DimensionEditRenamesRow ==
    \A old \in Sources \ {<<>>}, new \in Sources \ {<<>>}, o \in QueryOracles :
        DimensionsEdited(DB, old, new, update_joined_table(DB, old, new, <<>>, o))

\* A fact row shows a value, and the edit of its dimension to a new value
\* goes through: the row shows the new value afterwards (another dimension
\* holds two rows, which the edit is to leave alone).
RenamedUnderFact(db, t, old, new, r) ==
    /\ r.exc = OK
    /\ \E f \in db.fact : ValueOf(db, t, f) = old /\ ValueOf(r.db, t, f) = new

C9_Witness ==
    \E t \in SUBTABLES, old \in Vals, new \in Vals, o \in QueryOracles :
        /\ old # new
        /\ \E u \in SUBTABLES \ {t} : Cardinality(dim[u]) = 2
        /\ RenamedUnderFact(DB, t, old, new,
               update_joined_table(DB, (t :> old), (t :> new), <<>>, o))

\* C4: in every state the catalog operations reach, the foreign keys of every
\* fact row refer to rows of the dimension tables.
C4_ForeignKeysResolve == \A f \in fact : Resolves(DB, f)

\* The ids of the rows of dimension t that hold the value src gives.
Named(db, src, t) == {r.id : r \in {x \in db.dim[t] : x.val = src[t]}}

SourceRowsDeleted(db, src, r) ==
    r.exc = OK =>
      /\ \A t \in DOMAIN src : r.db.dim[t] = {x \in db.dim[t] : x.val # src[t]}
      /\ \A t \in SUBTABLES \ DOMAIN src : r.db.dim[t] = db.dim[t]
      /\ r.db.fact = {f \in db.fact : \A t \in DOMAIN src : f.fk[t] \notin Named(db, src, t)}

\* C6: delete_joined_table(source_data, from_source=True) deletes the row of
\* every dimension named in source_data and with it every fact row that
\* referred to a deleted row; the other fact rows and dimension rows are
\* unchanged.
C6_DeleteFromSourceCascades ==
    \A src \in Sources \ {<<>>}, o \in QueryOracles :
        SourceRowsDeleted(DB, src, delete_joined_table(DB, src, TRUE, o))

\* What a fact row says: the values of its dimensions and its fact values.
Content(db, f) == <<ValuesOf(db, f), f.r1, f.x1>>

\* How many rows of the fact table of db say c.
Count(db, c) == Cardinality({f \in db.fact : Content(db, f) = c})

IdsReset(db, r) ==
    /\ {f.id : f \in r.db.fact} = 1 .. Cardinality(db.fact)
    /\ Cardinality(r.db.fact) = Cardinality(db.fact)
    /\ \A f \in db.fact \cup r.db.fact :
          Count(r.db, Content(db, f)) = Count(db, Content(db, f))
          /\ Count(r.db, Content(r.db, f)) = Count(db, Content(r.db, f))

\* C10: reset_id on a fact table of N rows ends with N rows of ids 1..N that
\* say what the rows said before: none is lost, duplicated or attached to
\* other dimension values.
C10_ResetIdKeepsRows ==
    FACT \in exists => \A o \in EngineOracles : IdsReset(DB, reset_id(DB, FACT, o))

\* The rows of table t, without their ids.
RowsOf(db, t) ==
    IF t = FACT THEN {<<f.fk, f.r1, f.x1>> : f \in db.fact} ELSE DimVals(db, t)

CsvRows(t) == IF t = FACT THEN {<<CsvRow.d, CsvRow.r1, CsvRow.x1>>} ELSE {CsvRow.d[t]}

DeployedOrUntouched(db, clear, r) ==
    r.exc = OK => \A t \in Tables :
        IF clear \/ t \notin db.exists
        THEN t \in r.db.exists /\ RowsOf(r.db, t) = CsvRows(t)
        ELSE t \in r.db.exists /\ RowsOf(r.db, t) = RowsOf(db, t)

\* C11: db_install(clear) creates and fills from its CSV file every table for
\* which clear is true or which does not exist at that moment, a table
\* dropped after an earlier install of the process included, and leaves
\* every other table and its rows untouched (whenever it completes).
C11_InstallDeploysAbsentTables ==
    \A clear \in BOOLEAN, o \in InstallOracles :
        DeployedOrUntouched(DB, clear, db_install(DB, metadata, clear, o))

\* Whether every field of element e holds a value of its declared type
\* (none is None), and none an empty text.
WellTyped(e) ==
    \A i \in DOMAIN e.fields :
        e.fields[i].type = Fields[e.variant][i] /\ e.fields[i].val # ""

\* Whether the catalog holds a row for the natural key of element e.
InCatalog(db, oc, e) ==
    IF e.variant \in {"R", "Line", "Arc"} THEN Contact(oc, e) # {}
    ELSE Joined(db, Key(e)) # {}

\* C12: for every element variant and every impedance property, when the
\* catalog holds no fact row for the element's natural key, reading the
\* property raises the ValueError of BaseElement, whose message contains
\* str(element).
C12_MissingRowRaisesNotInCatalog ==
    (element # Nothing /\ element.exc = OK /\ WellTyped(element)
        /\ returned # Nothing /\ ~InCatalog(DB, other_contact, element))
    => returned.exc = "ValueError" /\ returned.msg = StrOf(element)

\* C16: a successfully constructed element holds in every field a value of
\* the field's declared type, and none that is empty: the construction
\* fails when a value cannot be coerced or a required field is empty.
C16_ConstructedFieldsTypedNonEmpty ==
    (element # Nothing /\ element.exc = OK) => WellTyped(element)

\* The slice s of chain c is the chain of the first k elements of c, in its
\* form and with its labels; the whole chain has the current of c.
FirstElements(db, oc, c, k, s) ==
    /\ s.exc = OK
    /\ s.form = c.form
    /\ s.obj = SubSeq(c.obj, 1, k)
    /\ k = Len(c.obj) =>
          \A o \in QueryOracles :
              three_phase_current_short_circuit(config_file, db, oc, s, o)
                  = three_phase_current_short_circuit(config_file, db, oc, c, o)

\* C19: for every chain c, a sequence or a mapping, and every k from 1 to
\* len(c), c[:k] is the chain of the same form of the first k elements of c
\* in their order, with their labels, and c[:len(c)] has the three-phase
\* current of c.
C19_SliceIsPrefixOfChain ==
    (returned # Nothing /\ returned.op = "slice"
        /\ returned.k \in 1 .. Len(chain.obj))
    => FirstElements(DB, other_contact, chain, returned.k, returned.val)

\* A mapping of two elements that are in the catalog has been sliced whole.
C19_Witness ==
    /\ returned # Nothing /\ returned.op = "slice"
    /\ chain.form = "Mapping"
    /\ returned.k = 2 /\ Len(chain.obj) = 2
    /\ \A o \in QueryOracles :
          three_phase_current_short_circuit(config_file, DB, other_contact, chain, o).exc = OK

\* C20: drop_table(confirm) with confirm different from the table's own
\* name is a no-op: the table and all its rows are unchanged, and the call
\* completes without an exception.
C20_UnconfirmedDropIsNoOp ==
    \A t \in Tables, forced \in BOOLEAN, o \in EngineOracles :
        /\ drop_table(DB, t, FALSE, forced, o).db = DB
        /\ drop_table(DB, t, FALSE, forced, o).exc = OK

\* The names of the elements of chain c of the system, in their order, as
\* the text has them and as the chain has them.
NamesWritten(c) == [i \in DOMAIN c |-> c[i].name]

NamesOf(c) == IF c.form = "Mapping" THEN [i \in DOMAIN c.obj |-> c.obj[i][1]]
              ELSE [i \in DOMAIN c.obj |-> ""]

\* The types of the elements, likewise.
TypesWritten(c) == [i \in DOMAIN c |-> c[i].elem.type]

TypesOf(c) == [i \in DOMAIN Values(c) |-> Values(c)[i].variant]

\* All of the elements of the chain carry a name, or none does.
OneForm(c) == (\A i \in DOMAIN c : c[i].name = "") \/ (\A i \in DOMAIN c : c[i].name # "")

\* C13: the text of m chains separated by ';', chain i of n_i elements,
\* each chain of one form, is parsed into a system of m chains in the order
\* of the text, chain i holding the n_i elements in their order, and a
\* named chain their labels, one for each element, in their order.
C13_ParseKeepsChainsAndElements ==
    (system # Nothing /\ system.exc = OK /\ \A i \in DOMAIN text.written : OneForm(text.written[i]))
    => /\ Len(system.obj) = Len(text.written)
       /\ \A i \in DOMAIN text.written :
             /\ Len(system.obj[i].obj) = Len(text.written[i])
             /\ TypesOf(system.obj[i]) = TypesWritten(text.written[i])
             /\ NamesOf(system.obj[i]) = NamesWritten(text.written[i])

\* C14: a text with a chain of which one element carries a name and
\* another does not is not parsed: the parse ends with an exception.
C14_MixedChainIsBadInput ==
    (system # Nothing /\ \E i \in DOMAIN text.written : ~OneForm(text.written[i]))
    => system.exc # OK

\* The numbers of arguments the constructor of a variant takes: its fields,
\* less the one __post_init__ sets.
Takes(variant) ==
    IF variant \in DOMAIN Discriminator
    THEN {Len(Fields[variant]) - 1}
    ELSE {Len(Fields[variant])}

\* An element written with a type that is none of the eight or with a
\* number of arguments the type does not take.
IllWritten(el) == el.type \notin Variants \/ Len(el.args) \notin Takes(el.type)

\* C15: a text with an element whose type is none of T, W, Q, QF, QS, R,
\* Line, Arc, or whose number of arguments is not the one its type takes,
\* is not parsed: the parse ends with an exception.
C15_UnknownTypeOrArityIsBadInput ==
    (system # Nothing
        /\ \E i \in DOMAIN text.written : \E j \in DOMAIN text.written[i] :
              IllWritten(text.written[i][j].elem))
    => system.exc # OK

\* The names of the lines of the file.
KeysOf(file) == {file[i].name : i \in DOMAIN file}

\* The value a text given as a literal stands for: 'True', '1' and
\* "Decimal('0.4')" are the bool, the int and the Decimal; any other value
\* is itself.
Meant(v) ==
    IF v = Typed("str", <<"True">>) THEN Typed("bool", <<"True">>)
    ELSE IF v = Typed("str", <<"1">>) THEN Typed("int", <<"1">>)
    ELSE IF v = Typed("str", <<"Decimal", "(", "'", "0.4", "'", ")">>)
    THEN Typed("Decimal", <<"0.4">>)
    ELSE v

\* The write w of v under key succeeded and the next read returns v.
ReadsBack(w, key, v) ==
    /\ w.exc = OK
    /\ config_manager(w.file, key, NoneVal).exc = OK
    /\ config_manager(w.file, key, NoneVal).val = Meant(v)

\* C17: for every key of the configuration file and every value v (bool,
\* int, float, Decimal, text), after config_manager(key, v) the next
\* config_manager(key) returns v with its type, a literal text as the value
\* it stands for; config_manager(key) of a key that is not in the file
\* returns None.
C17_ConfigRoundTrip ==
    /\ \A key \in KeysOf(config_file), v \in NewVals :
          ReadsBack(config_manager(config_file, key, v), key, v)
    /\ \A param \in Params \ KeysOf(config_file) :
          /\ config_manager(config_file, param, NoneVal).exc = OK
          /\ config_manager(config_file, param, NoneVal).val = NoneVal

\* The lines of names other than key are in w as they are in file.
OtherLinesKept(file, key, w) ==
    /\ Len(w.file) = Len(file)
    /\ \A i \in DOMAIN file : file[i].name # key => w.file[i] = file[i]

\* C18: config_manager(key, v) changes the value of the line of key only:
\* every other line of the file, the lines of names that contain key as a
\* part included, is after the write as it was before.
C18_WriteKeepsOtherLines ==
    \A key \in KeysOf(config_file), v \in NewVals :
        OtherLinesKept(config_file, key, config_manager(config_file, key, v))

\* The literals among the texts, and the values they stand for.
Literals ==
    (<<"True">> :> Typed("bool", <<"True">>)) @@ (<<"False">> :> Typed("bool", <<"False">>))
    @@ (<<"1">> :> Typed("int", <<"1">>)) @@ (<<"0.4">> :> Typed("float", <<"0.4">>))
    @@ (<<"None">> :> NoneVal)
    @@ (<<"Decimal", "(", "'", "0.4", "'", ")">> :> Typed("Decimal", <<"0.4">>))

\* The value of a text that is a literal; any other value is itself.
LiteralOf(v) == IF v.type = "str" /\ v.val \in DOMAIN Literals THEN Literals[v.val] ELSE v

\* The value as a Decimal: True is 1, False is 0.
AsDecimal(v) ==
    IF v.type = "bool" THEN Typed("Decimal", IF v.val = <<"True">> THEN <<"1">> ELSE <<"0">>)
    ELSE Typed("Decimal", v.val)

\* The value as a text: Decimal('d') of the Decimal d.
AsString(v) ==
    IF v.type = "Decimal" THEN Typed("str", <<"Decimal", "(", "'">> \o v.val \o <<"'", ")">>)
    ELSE Typed("str", v.val)

\* The text in single quotes, in double quotes if it holds a single quote.
InQuotes(v) ==
    IF \E i \in DOMAIN v.val : v.val[i] = "'"
    THEN Typed("str", <<"\"">> \o v.val \o <<"\"">>)
    ELSE Typed("str", <<"'">> \o v.val \o <<"'">>)

\* The conversions asked for, in the order decimal, string, quote.
InOrder(v, as_decimal, as_string, quoting) ==
    IF quoting
    THEN InQuotes(IF as_string THEN AsString(IF as_decimal THEN AsDecimal(v) ELSE v)
                  ELSE IF as_decimal THEN AsDecimal(v) ELSE v)
    ELSE IF as_string THEN AsString(IF as_decimal THEN AsDecimal(v) ELSE v)
    ELSE IF as_decimal THEN AsDecimal(v) ELSE v

\* The conversions asked for are those of a number to a Decimal and of a
\* text to its quoted form.
Convertible(v, as_decimal, as_string, quoting) ==
    /\ as_decimal => v.type \in {"bool", "int", "float", "Decimal"}
    /\ quoting => as_string \/ (v.type = "str" /\ ~as_decimal)

\* C21: TypesManager(value, as_decimal, as_string, quoting) turns a text
\* into the value of its literal (bool, int, float, None, Decimal('..')),
\* leaves a text that is no literal as it is, and then applies the
\* conversions asked for in the order decimal, string, quote: as_string
\* renders the Decimal d as Decimal('d'), quoting puts the text in single
\* quotes, or in double quotes if it holds a single quote.
C21_TypesManagerConverts ==
    (returned # Nothing
        /\ Convertible(LiteralOf(returned.value), returned.as_decimal, returned.as_string,
                       returned.quoting))
    => returned.out = Gives(InOrder(LiteralOf(returned.value), returned.as_decimal,
                                    returned.as_string, returned.quoting))

\* round(sqrt(3) / 2 * i3, places), as the claim states it: the product is
\* halved and rounded half to even.
HalfOfSqrt3(i3, places) ==
    LET n == Sqrt3 * i3.val * 10 ^ places
        d == 2 * 1000 * 10 ^ i3.places
    IN  IF 2 * (n % d) = d THEN (n \div d) + ((n \div d) % 2)
        ELSE (2 * n + d) \div (2 * d)

\* C22: for every chain c whose currents are defined, c.I2 is
\* round(sqrt(3) / 2 * c.I3, accuracy), I3 being the already rounded value
\* of c.I3.
C22_TwoPhaseFromRoundedThreePhase ==
    (returned # Nothing /\ returned.op = "current2"
        /\ returned.i3.exc = OK /\ returned.val.exc = OK)
    => /\ returned.val.places
            = Places(config_manager(config_file, CALCULATIONS_ACCURACY, NoneVal).val)
       /\ returned.val.val = HalfOfSqrt3(returned.i3, returned.val.places)

\* The two-phase current of a chain of two elements has been read, and is
\* not zero.
C22_Witness ==
    /\ returned # Nothing /\ returned.op = "current2"
    /\ Len(chain.obj) = 2
    /\ returned.i3.exc = OK /\ returned.val.exc = OK
    /\ returned.val.val > 0

\* C23: a forced drop, drop_table(forced=True) or create_table(drop_first=True,
\* forced_drop=True), disables the foreign-key checks for its own duration
\* only: when the call has returned or raised, on every path, the DROP
\* failing included, the checks are enabled.
C23_ForcedDropRestoresForeignKeys ==
    \A t \in Tables, o \in EngineOracles :
        /\ drop_table(DB, t, TRUE, TRUE, o).db.foreign_keys
        /\ create_table(DB, t, TRUE, TRUE, o).db.foreign_keys


\* After insert_joined_table of data a row of which leaves a dimension
\* column without a value (its outcome is r): the IntegrityError is raised
\* and no row of the call is committed.
RaisesIntegrityError(db, r) ==
    /\ r.exc = "IntegrityError"
    /\ r.db.dim = db.dim
    /\ r.db.fact = db.fact

\* C24: during a dimension insert of insert_joined_table only a uniqueness
\* violation is swallowed; any other integrity error, such as a null
\* dimension value, is raised, and the transaction ends without committing
\* the failing row.
C24_OnlyDuplicatesAreSwallowed ==
    Tables \subseteq exists =>
        \A data \in DataOrNone :
            (\E i \in DOMAIN data, t \in SUBTABLES : data[i].d[t] = None)
            => RaisesIntegrityError(DB, insert_joined_table(DB, data))

\* What the insert of such data does: the exception is an AttributeError,
\* and no row of the call is committed.
D24_NullRaisesAttributeError ==
    Tables \subseteq exists =>
        \A data \in DataOrNone :
            (\E i \in DOMAIN data, t \in SUBTABLES : data[i].d[t] = None)
            => /\ insert_joined_table(DB, data).exc = "AttributeError"
               /\ insert_joined_table(DB, data).db.dim = dim
               /\ insert_joined_table(DB, data).db.fact = fact


\* C25: the voltage of a T is the value SYSTEM_VOLTAGE_IN_KILOVOLTS has in
\* the configuration at the moment the element is constructed: a T
\* constructed after config_manager('SYSTEM_VOLTAGE_IN_KILOVOLTS', v) has the
\* voltage v, the one the chain formulas read for U. (The action formula
\* speaks of the step that constructs the element.)
C25_VoltageReadAtConstruction ==
    [][(element = Nothing /\ element' # Nothing /\ element'.exc = OK /\ element'.variant = "T")
        => element'.voltage
             = config_manager(config_file, SYSTEM_VOLTAGE_IN_KILOVOLTS, NoneVal).val]_vars


\* C26: the result of parsing a text does not depend on the optional white
\* space around the separators (the ',' between arguments and between
\* elements, the ':' after a label, the ';' between chains) nor on whether
\* the quotes are single or double: it is the result of the text written
\* with ', ', ': ', '; ' and single quotes.
C26_ParseIgnoresSpacingAndQuotes ==
    system # Nothing => system = parse_obj(Render(text.written))

\* The same of the texts in which white space follows each ',' between
\* arguments.
D26_ParseIgnoresOtherSpacing ==
    (system # Nothing
        /\ \E style \in Styles : style.args /\ text.chars = RenderAs(text.written, style))
    => system = parse_obj(Render(text.written))


\* The calls of update_joined_table that edit source tables: new_source_data
\* names dimensions old_source_data names too, target_row_data
\* resistance_r1 or nothing.
SourceUpdates ==
    {u \in [old : Sources, new : Sources, target : {g \in Targets : DOMAIN g \subseteq {"r1"}}] :
        DOMAIN u.new # {} /\ DOMAIN u.new \subseteq DOMAIN u.old}

\* The first dimension table of u whose UPDATE the database refuses.
Refused(db, u) ==
    Min({t \in DOMAIN u.new : SqlUpdateDim(db, t, u.old[t], u.new[t]).exc # OK})

\* What the call u leaves when refused (r is its outcome): the fact rows as the
\* fact-row edit left them, the dimension tables before the refused one
\* edited, the others as they were.
StaysCommitted(db, u, o, r) ==
    r.exc = "IntegrityError" =>
    /\ r.db.fact = IF DOMAIN u.target # {} THEN FactEdit(db, u.old, u.target, o).db.fact
                   ELSE db.fact
    /\ \A t \in SUBTABLES :
          r.db.dim[t] = IF t \in DOMAIN u.new /\ t < Refused(db, u)
                        THEN SqlUpdateDim(db, t, u.old[t], u.new[t]).db.dim[t]
                        ELSE db.dim[t]

PartlyDone(db, r) == r.exc = "IntegrityError" /\ r.db.fact # db.fact /\ r.db.dim # db.dim

\* C27: update_joined_table performs the fact-row edit and then each
\* dimension edit in transactions of their own, in that order: when a
\* dimension edit fails, the fact-row edit and the dimension edits before
\* it stay committed.
C27_UpdateIsNotAtomic ==
    \A u \in SourceUpdates, o \in QueryOracles :
        StaysCommitted(DB, u, o, update_joined_table(DB, u.old, u.new, u.target, o))

\* A call whose second dimension edit is refused after its fact-row edit
\* and its first dimension edit changed rows.
C27_Witness ==
    \E u \in SourceUpdates, o \in QueryOracles :
        PartlyDone(DB, update_joined_table(DB, u.old, u.new, u.target, o))


\* After reset_id of the fact table (its outcome is r): a call that raised
\* after its DELETE was committed has left no fact row.
LeftEmpty(db, r) == (r.exc # OK /\ FACT \in db.exists) => r.db.fact = {}

\* C28: on SQLite, reset_id of a joined table deletes all rows and resets
\* the sequence in one committed transaction before it re-inserts the rows
\* in a step of its own: when the re-insert fails the fact table stays
\* empty.
C28_ResetIdLosesRowsWhenReinsertFails ==
    dialect = "SQLite" =>
        \A o \in EngineOracles : LeftEmpty(DB, reset_id(DB, FACT, o))

\* On SQLite a reset_id of a fact table that holds rows is refused at the
\* re-insert.
C28_Witness ==
    /\ dialect = "SQLite" /\ fact # {}
    /\ \E o \in EngineOracles :
          reset_id(DB, FACT, o).exc = "IntegrityError" /\ reset_id(DB, FACT, o).db.fact = {}


\* Every dimension value of the row is in its table.
Known(db, row) == \A t \in SUBTABLES : row.d[t] \in DimVals(db, t)

\* After insert_joined_table (its outcome is r): it raised nothing and left
\* the fact table as it was.
NoFactRow(db, r) == r.exc = OK /\ r.db.fact = db.fact

\* C29: an insert_joined_table of a single row all of whose dimension values
\* exist already inserts no fact row: so after delete_joined_table(
\* from_source=False) removed the fact row of a tuple the tuple cannot be
\* inserted again, and no new combination of existing dimension values gets
\* a fact row.
C29_ExistingValuesGetNoFactRow ==
    \A row \in Row :
        Known(DB, row) => NoFactRow(DB, insert_joined_table(DB, <<row>>))

\* The dimension values of a tuple are there and its fact row is not, no
\* fact row being left at all (a delete_joined_table removed it), and the
\* insert of the tuple leaves it so.
C29_Witness ==
    /\ fact = {}
    /\ \E row \in Row :
          /\ Known(DB, row)
          /\ insert_joined_table(DB, <<row>>).db.fact = {}


\* The engine is bound to SQLite and the configuration names another
\* database.
Rebound == engine = "SQLite" /\ dialect # "SQLite"

\* After delete_joined_table(source_data, from_source=True) (its outcome is
\* r): the fact rows are all there.
KeepsFactRows(db, r) == r.db.fact = db.fact

Cascades(db, r) ==
    r.db.fact = {f \in db.fact : \A t \in SUBTABLES : f.fk[t] = None \/ f.fk[t] \in DimIds(r.db, t)}

=============================================================================
